---- MODULE Spec2Model ----
(***************************************************************************)
(* Framing layout and cut-optimization engine of framing-calc.             *)
(*                                                                         *)
(* Lengths are exact fixed-point numbers: one inch is Unit units, where    *)
(* Unit is a multiple of 1000 (thousandths of an inch, which covers the    *)
(* eighths and the 0.01" tolerances of the code) and of every divisor      *)
(* autoCount + 1 the auto-flow spacing can divide by, so that every        *)
(* division of the code is exact in the model.                             *)
(***************************************************************************)
EXTENDS Integers, Sequences, FiniteSets, TLC

VARIABLES
    details,          \* the WallDetails record under computation
    openingLayouts,   \* last result of calculateOpeningLayouts (a sequence)
    pc,               \* which results have been computed
    cuts,             \* optimizeCuts: the cuts argument
    stockLengths,     \* optimizeCuts: the stockLengths argument
    sortedCuts,       \* optimizeCuts: the cuts in processing order
    stockBins,        \* optimizeCuts: the open bins {length, remaining}
    cutIndex,         \* optimizeCuts: how many cuts the loop has processed
    optimized,        \* optimizeCuts: the returned {length, count} entries
    binCuts,          \* history: per open bin, the cuts assigned to it
    members,          \* last result of generateWallMembers(details)
    otherMembers,     \* last result of generateWallMembers on the other wall
    memberIdCounters, \* memberIdCounters as the last call left it
    firstMembers,     \* history: the first result for details
    callLog,          \* history: the walls generateWallMembers was called on
    raw,              \* <<result of calculateWallCuts(details)>>, or <<>>
    cutHistory,       \* history: what the last calculateWallCuts counted
    materialList,     \* <<result of processRawCuts(raw)>>, or <<>>
    optimizeLog,      \* history: the optimizeCuts calls of processRawCuts
    walls,            \* the project's walls {id, name, floorId, details}
    floors,           \* the project's floors {id, name}
    materials,        \* <<result of calculateProjectMaterials>>, or <<>>
    projectLog        \* history: what the last calculateProjectMaterials did

genVars == <<members, otherMembers, memberIdCounters, firstMembers, callLog,
             raw, cutHistory>>
wallVars == <<details, openingLayouts, genVars>>
optVars == <<cuts, stockLengths, sortedCuts, stockBins, cutIndex, optimized,
             binCuts>>
projVars == <<materialList, optimizeLog, walls, floors, materials,
              projectLog>>
vars == <<wallVars, pc, optVars, projVars>>

----------------------------------------------------------------------------
(* Bounds of the model *)

MaxOpenings == 2
MaxQuantity == 2
MaxCuts == 4
MaxCalls == 3
MaxWalls == 2
MaxFloors == 2

----------------------------------------------------------------------------
(* Exact arithmetic *)

RECURSIVE GCD(_, _)
GCD(a, b) == IF b = 0 THEN a ELSE GCD(b, a % b)

RECURSIVE LCMUpTo(_)
LCMUpTo(n) == IF n <= 1 THEN 1
              ELSE LET l == LCMUpTo(n - 1) IN (l * n) \div GCD(l, n)

\* the largest number of auto-flow instances one wall can carry
MaxAutoCount == MaxOpenings * MaxQuantity

Den == LCMUpTo(MaxAutoCount + 1)

\* units per inch
Unit == 1000 * Den

In(n) == n * Unit
Eighths(n) == (n * Unit) \div 8
Hundredths(n) == (n * Unit) \div 100

Abs(x) == IF x < 0 THEN -x ELSE x
Max(a, b) == IF a >= b THEN a ELSE b

\* Math.floor(a / b) and Math.ceil(a / b) for b > 0
FloorDiv(a, b) == a \div b
CeilDiv(a, b) == -((-a) \div b)

\* Math.round(x * 100) : the number of hundredths, halves rounded up
RoundHundredths(x) == FloorDiv(2 * x + Hundredths(1), 2 * Hundredths(1))

\* Math.round(x * 100) / 100
RoundToHundredth(x) == RoundHundredths(x) * Hundredths(1)

\* Math.round(x) for a length x: whole inches, halves rounded up
RoundInches(x) == FloorDiv(2 * x + Unit, 2 * Unit) * Unit

\* the sum of s[lo..hi], by halves
RECURSIVE SeqSumOver(_, _, _)
SeqSumOver(s, lo, hi) ==
    IF lo > hi THEN 0
    ELSE IF lo = hi THEN s[lo]
    ELSE SeqSumOver(s, lo, (lo + hi) \div 2)
            + SeqSumOver(s, (lo + hi) \div 2 + 1, hi)

SeqSum(s) == SeqSumOver(s, 1, Len(s))

\* the concatenation of ss[lo..hi], by halves
RECURSIVE FlattenOver(_, _, _)
FlattenOver(ss, lo, hi) ==
    IF lo > hi THEN <<>>
    ELSE IF lo = hi THEN ss[lo]
    ELSE FlattenOver(ss, lo, (lo + hi) \div 2)
            \o FlattenOver(ss, (lo + hi) \div 2 + 1, hi)

Flatten(ss) == FlattenOver(ss, 1, Len(ss))

Range(s) == {s[i] : i \in 1..Len(s)}

\* the least member of a non-empty set of positions
FirstOf(positions) == CHOOSE i \in positions : \A j \in positions : i <= j

\* every sequence over S of length 0..n
RECURSIVE SeqsUpTo(_, _)
SeqsUpTo(S, n) ==
    IF n = 0 THEN {<<>>}
    ELSE LET shorter == SeqsUpTo(S, n - 1)
         IN shorter \cup {Append(s, e) : s \in {t \in shorter : Len(t) = n - 1},
                                          e \in S}

----------------------------------------------------------------------------
(* geometryService.ts: constants *)

PLATE_THICKNESS == (3 * Unit) \div 2
STUD_THICKNESS == (3 * Unit) \div 2

headerHeights(size) ==
    CASE size = "2x6" -> Eighths(44)
      [] size = "2x8" -> Eighths(58)
      [] size = "2x10" -> Eighths(74)
      [] size = "2x12" -> Eighths(90)

studDepths(size) ==
    CASE size = "2x4" -> Eighths(28)
      [] size = "2x6" -> Eighths(44)

\* an optional number (centerOffset?, headerTopOffset?) is <<>> when
\* undefined and <<v>> when set
Undefined == <<>>
Some(v) == <<v>>
IsSet(o) == o # <<>>
Val(o) == o[1]

----------------------------------------------------------------------------
(* geometryService.ts: calculateOpeningLayouts *)

IsActive(op) == op.quantity > 0 /\ op.width > 0

activeOpeningsOf(openings) == SelectSeq(openings, IsActive)

\* mutant: the quantity is not looked at
IsManualPlacedAnyQuantity(op) == IsSet(op.centerOffset)

\* the branch condition of line 53
IsManualPlaced(op) == IsSet(op.centerOffset) /\ op.quantity = 1

FrameWidth(op) ==
    op.width + 2 * (op.kingStudsPerSide * STUD_THICKNESS)
             + 2 * (op.jackStudsPerSide * STUD_THICKNESS)

\* mutant: the frame is not centred on the offset
ManualPlacementFromEdge(op) ==
    LET frameWidth == FrameWidth(op)
        xStart == Val(op.centerOffset) - frameWidth
    IN [opening |-> op, index |-> 0, xStart |-> xStart,
        xEnd |-> xStart + frameWidth, center |-> Val(op.centerOffset),
        frameWidth |-> frameWidth]

ManualPlacement(op) ==
    LET frameWidth == FrameWidth(op)
        xStart == Val(op.centerOffset) - (frameWidth \div 2)
    IN [opening |-> op, index |-> 0, xStart |-> xStart,
        xEnd |-> xStart + frameWidth, center |-> Val(op.centerOffset),
        frameWidth |-> frameWidth]

\* manualOpenings before the sort (lines 52-63)
manualOpeningsOf(active) ==
    LET sel == SelectSeq(active, IsManualPlaced)
    IN [i \in 1..Len(sel) |-> ManualPlacement(sel[i])]

\* autoOpenings: each non-manual opening pushed quantity times (lines 64-69)
autoOpeningsOf(active) ==
    Flatten([i \in 1..Len(active) |->
               IF IsManualPlaced(active[i]) THEN <<>>
               ELSE [k \in 1..active[i].quantity |-> active[i]]])

\* mutant: one gap too few
AutoSpacingByCount(wallLength, totalAutoWidth, autoCount) ==
    (wallLength - totalAutoWidth) \div autoCount

\* line 80
AutoSpacing(wallLength, totalAutoWidth, autoCount) ==
    (wallLength - totalAutoWidth) \div (autoCount + 1)

\* the forEach of lines 83-94, from instance idx (1-based) at currentX
RECURSIVE FlowAuto(_, _, _, _)
FlowAuto(autoOpenings, idx, currentX, spacing) ==
    IF idx > Len(autoOpenings) THEN <<>>
    ELSE LET op == autoOpenings[idx]
             frameWidth == FrameWidth(op)
         IN <<[opening |-> op, index |-> idx - 1, xStart |-> currentX,
               xEnd |-> currentX + frameWidth,
               center |-> currentX + (frameWidth \div 2),
               frameWidth |-> frameWidth]>>
            \o FlowAuto(autoOpenings, idx + 1,
                        currentX + frameWidth + spacing, spacing)

\* manualOpenings.sort((a,b) => a.xStart - b.xStart): Array.prototype.sort is
\* stable, so entries with equal xStart keep their order
RECURSIVE InsertByXStart(_, _)
InsertByXStart(s, e) ==
    IF s = <<>> THEN <<e>>
    ELSE IF Head(s).xStart <= e.xStart
         THEN <<Head(s)>> \o InsertByXStart(Tail(s), e)
         ELSE <<e>> \o s

\* mutant: the manual openings are left in declaration order
SortByXStartSkipped(s) == s

RECURSIVE SortByXStart(_)
SortByXStart(s) ==
    IF s = <<>> THEN <<>>
    ELSE InsertByXStart(SortByXStart(SubSeq(s, 1, Len(s) - 1)), s[Len(s)])

calculateOpeningLayouts(wallLength, openings) ==
    LET activeOpenings == activeOpeningsOf(openings)
        manualOpenings == SortByXStart(manualOpeningsOf(activeOpenings))
        autoOpenings == autoOpeningsOf(activeOpenings)
        totalAutoWidth ==
            SeqSum([i \in 1..Len(autoOpenings) |-> FrameWidth(autoOpenings[i])])
        spacing == AutoSpacing(wallLength, totalAutoWidth, Len(autoOpenings))
        positioned == IF Len(autoOpenings) > 0
                      THEN FlowAuto(autoOpenings, 1, spacing, spacing)
                      ELSE <<>>
    IN IF Len(activeOpenings) = 0 THEN <<>>
       ELSE positioned \o manualOpenings

\* mutant: the sort of line 73 is applied to the caller's array, which it
\* orders by centerOffset
openingsSortedInPlace(openings) ==
    LET Before(a, b) ==
            IsSet(a.centerOffset) /\ IsSet(b.centerOffset)
            /\ Val(a.centerOffset) < Val(b.centerOffset)
    IN IF Len(openings) = 2 /\ Before(openings[2], openings[1])
       THEN <<openings[2], openings[1]>>
       ELSE openings

\* the caller's openings array after the call: line 46 filters it into a new
\* array, the pushes of lines 52-55 fill local arrays, and the one in-place
\* operation, the sort of line 73, orders the local manualOpenings
openingsAfterLayout(openings) == openings

----------------------------------------------------------------------------
(* geometryService.ts: formatInchesForName and getMemberData *)

TwoDigits(n) == IF n < 10 THEN "0" \o ToString(n) ELSE ToString(n)

\* inches.toFixed(2) for inches >= 0
ToFixed2(inches) ==
    LET h == RoundHundredths(inches)
    IN ToString(h \div 100) \o "." \o TwoDigits(h % 100)

\* inches.toFixed(1) for inches >= 0
ToFixed1(inches) ==
    LET t == FloorDiv(2 * inches + Unit \div 10, 2 * (Unit \div 10))
    IN ToString(t \div 10) \o "." \o ToString(t % 10)

\* the fractions table of lines 21-23, in eighths
FractionKey(n) ==
    CASE n = 1 -> "1/8" [] n = 2 -> "1/4" [] n = 3 -> "3/8" [] n = 4 -> "1/2"
      [] n = 5 -> "5/8" [] n = 6 -> "3/4" [] n = 7 -> "7/8"

formatInchesForName(inches) ==
    LET whole == FloorDiv(inches, Unit)
        fractionInches == inches - whole * Unit
        matching == {n \in 1..7 :
                       Abs(fractionInches - Eighths(n)) < Hundredths(1)}
    IN IF Abs(fractionInches) < Hundredths(1) THEN ToString(whole)
       ELSE IF matching # {}
            THEN ToString(whole) \o " "
                   \o FractionKey(CHOOSE n \in matching :
                                     \A m \in matching : n <= m)
            ELSE ToFixed2(inches)

\* type.charAt(0).toUpperCase() + type.slice(1)
Capitalize(type) ==
    CASE type = "stud" -> "Stud" [] type = "king" -> "King"
      [] type = "jack" -> "Jack" [] type = "cripple" -> "Cripple"
      [] type = "block" -> "Block" [] OTHER -> type

\* mutant: the counters of the previous call are kept
FreshCountersKept(previous) == previous

\* line 107: memberIdCounters = {} at the start of every call; previous is
\* what the call before left behind
FreshCounters(previous) == <<>>

\* lines 111-114: the count and the id of a name
CountedName(counters, name, count) ==
    [id |-> name \o " " \o ToString(count), name |-> name,
     counters |-> IF name \in DOMAIN counters
                  THEN [counters EXCEPT ![name] = count]
                  ELSE counters @@ (name :> count)]

\* mutant: the count of a name is not kept, every member is the first
NamedMemberUncounted(counters, name) == CountedName(counters, name, 1)

\* lines 110-114
NamedMember(counters, name) ==
    CountedName(counters, name,
                (IF name \in DOMAIN counters THEN counters[name] ELSE 0) + 1)

\* lines 108-115; counters is memberIdCounters, returned updated
getMemberData(counters, size, length, type) ==
    NamedMember(counters,
                size \o "x" \o formatInchesForName(length) \o " "
                  \o Capitalize(type))

Member3D(id, name, x, y, z, w, h, d, type) ==
    [id |-> id, name |-> name, x |-> x, y |-> y, z |-> z, w |-> w, h |-> h,
     d |-> d, type |-> type]

\* a loop's exit test, read once the members pushed so far are evaluated (TLC
\* evaluates operator arguments lazily, and would otherwise keep one pending
\* push per member on its stack)
LoopEnds(acc, finished) == Len(acc.members) >= 0 /\ finished

\* members.push of a member with the id and name of data
PushData(acc, data, x, y, w, h, d, type) ==
    [members |-> Append(acc.members,
                   Member3D(data.id, data.name, x, y, 0, w, h, d, type)),
     counters |-> data.counters]

\* members.push of a member whose id and name come from getMemberData; acc is
\* the pair of members and memberIdCounters built so far
PushCounted(acc, size, length, typeName, x, y, w, h, d, type) ==
    PushData(acc, getMemberData(acc.counters, size, length, typeName),
             x, y, w, h, d, type)

----------------------------------------------------------------------------
(* geometryService.ts: generateWallMembers, plates and common studs *)

topPlateHeightOf(d) ==
    IF d.doubleTopPlate THEN 2 * PLATE_THICKNESS ELSE PLATE_THICKNESS

bottomPlateHeight == PLATE_THICKNESS

studHeightOf(d) == d.wallHeight - topPlateHeightOf(d) - bottomPlateHeight

\* startStuds || 1, endStuds || 1
OrOne(n) == IF n = 0 THEN 1 ELSE n

\* lines 121-124: the bottom plate, named by data
PushBottomPlate(acc, d, data) ==
    [members |->
        Append(acc.members,
               Member3D("bottom-plate", data.name, 0,
                        d.wallHeight - bottomPlateHeight, 0, d.wallLength,
                        bottomPlateHeight, studDepths(d.studSize),
                        IF d.pressureTreatedBottomPlate THEN "pt-plate"
                        ELSE "plate")),
     counters |-> data.counters]

\* lines 126-132: the top plates, named by data
PushTopPlates(acc, d, data) ==
    [members |->
        acc.members \o
          (IF d.doubleTopPlate
           THEN <<Member3D("top-plate-1", data.name, 0, 0, 0, d.wallLength,
                           PLATE_THICKNESS, studDepths(d.studSize), "plate"),
                  Member3D("top-plate-2", data.name, 0, PLATE_THICKNESS, 0,
                           d.wallLength, PLATE_THICKNESS,
                           studDepths(d.studSize), "plate")>>
           ELSE <<Member3D("top-plate", data.name, 0, 0, 0, d.wallLength,
                           topPlateHeightOf(d), studDepths(d.studSize),
                           "plate")>>),
     counters |-> data.counters]

\* lines 126-132
PushTopPlatesOf(acc, d) ==
    PushTopPlates(acc, d,
                  getMemberData(acc.counters, d.studSize, d.wallLength,
                                "Plate"))

\* lines 120-132
PushPlates(acc, d) ==
    PushTopPlatesOf(
        PushBottomPlate(acc, d,
            getMemberData(acc.counters, d.studSize, d.wallLength,
                          IF d.pressureTreatedBottomPlate THEN "PT Plate"
                          ELSE "Plate")),
        d)

\* mutant: the end studs are left out
studPositionsWithoutEndStuds(d) ==
    LET onCenter == {i \in 1..(d.wallLength \div d.studSpacing + 1) :
                        i * d.studSpacing < d.wallLength}
        baseLeft(i) == i * d.studSpacing
                         - (d.studsOnCenter * STUD_THICKNESS) \div 2
    IN {i * STUD_THICKNESS : i \in 0..(OrOne(d.startStuds) - 1)}
       \cup {baseLeft(i) + j * STUD_THICKNESS :
                i \in {k \in onCenter :
                         /\ baseLeft(k) >
                               (OrOne(d.startStuds) - 1) * STUD_THICKNESS
                         /\ baseLeft(k) <
                               d.wallLength
                                  - OrOne(d.endStuds) * STUD_THICKNESS},
                j \in 0..(d.studsOnCenter - 1)}

\* lines 140-160: the x of every stud position pushed (as a set: the
\* positions are deduplicated and sorted before use)
studPositionsToDraw(d) ==
    LET startStudCount == OrOne(d.startStuds)
        endStudCount == OrOne(d.endStuds)
        onCenter == {i \in 1..(d.wallLength \div d.studSpacing + 1) :
                        i * d.studSpacing < d.wallLength}
        baseLeft(i) == i * d.studSpacing
                         - (d.studsOnCenter * STUD_THICKNESS) \div 2
    IN {i * STUD_THICKNESS : i \in 0..(startStudCount - 1)}
       \cup {d.wallLength - (i + 1) * STUD_THICKNESS :
                i \in 0..(endStudCount - 1)}
       \cup {baseLeft(i) + j * STUD_THICKNESS :
                i \in {k \in onCenter :
                         /\ baseLeft(k) > (startStudCount - 1) * STUD_THICKNESS
                         /\ baseLeft(k) <
                               d.wallLength - endStudCount * STUD_THICKNESS},
                j \in 0..(d.studsOnCenter - 1)}

\* Array.from(keys).sort((a, b) => a - b) of a set of numbers
RECURSIVE SortedSeqOf(_)
SortedSeqOf(S) ==
    IF S = {} THEN <<>>
    ELSE LET m == CHOOSE x \in S :
                     2 * Cardinality({y \in S : y <= x}) >= Cardinality(S)
         IN SortedSeqOf({y \in S : y < m}) \o <<m>>
                \o SortedSeqOf({y \in S : y > m})

\* lines 162-170
sortedUniqueXs(d) ==
    SortedSeqOf({RoundToHundredth(x) : x \in studPositionsToDraw(d)})

\* lines 175, 191 (and 122, 137 of the calculation service)
InsideAnOpening(layouts, center) ==
    \E k \in DOMAIN layouts :
        center > layouts[k].xStart /\ center < layouts[k].xEnd

\* lines 173-179, from position i of xs
RECURSIVE PushStuds(_, _, _, _, _)
PushStuds(acc, d, layouts, xs, i) ==
    IF LoopEnds(acc, i > Len(xs)) THEN acc
    ELSE LET x == xs[i]
             studCenter == x + STUD_THICKNESS \div 2
         IN PushStuds(
              IF ~InsideAnOpening(layouts, studCenter)
              THEN PushCounted(acc, d.studSize, studHeightOf(d), "stud", x,
                               topPlateHeightOf(d), STUD_THICKNESS,
                               studHeightOf(d), studDepths(d.studSize), "stud")
              ELSE acc,
              d, layouts, xs, i + 1)

\* lines 192-209: the blocks of gap i (0-based), from row r
RECURSIVE PushBlockRows(_, _, _, _, _, _)
PushBlockRows(acc, d, i, currentEnd, gap, r) ==
    IF LoopEnds(acc, r > d.blockingRows) THEN acc
    ELSE LET baseHeight == (d.wallHeight \div (d.blockingRows + 1)) * r
             staggerOffset == IF i % 2 = 0 THEN -STUD_THICKNESS
                              ELSE STUD_THICKNESS
             yPos == baseHeight + staggerOffset
         IN PushBlockRows(
              PushCounted(acc, d.studSize, gap, "block", currentEnd, yPos,
                          gap, (3 * Unit) \div 2, studDepths(d.studSize),
                          "blocking"),
              d, i, currentEnd, gap, r + 1)

\* lines 182-213, from gap i (0-based)
RECURSIVE PushBlocking(_, _, _, _, _)
PushBlocking(acc, d, layouts, xs, i) ==
    IF LoopEnds(acc, ~(d.blockingRows > 0) \/ i >= Len(xs) - 1) THEN acc
    ELSE LET currentX == xs[i + 1]
             nextX == xs[i + 2]
             currentEnd == currentX + STUD_THICKNESS
             gap == nextX - currentEnd
             blockCenter == currentEnd + gap \div 2
         IN PushBlocking(
              IF gap > In(3) /\ ~InsideAnOpening(layouts, blockCenter)
              THEN PushBlockRows(acc, d, i, currentEnd, gap, 1)
              ELSE acc,
              d, layouts, xs, i + 1)

----------------------------------------------------------------------------
(* geometryService.ts: generateWallMembers, openings and sheathing *)

\* opening.headerTopOffset || 0
headerTopOffsetOf(opening) ==
    IF IsSet(opening.headerTopOffset) THEN Val(opening.headerTopOffset) ELSE 0

\* mutant: the header of a door is not clamped under the top plate(s)
HeaderGeometryUnclamped(d, opening) ==
    LET headerH == headerHeights(opening.headerSize)
        doorHeaderY == d.wallHeight - bottomPlateHeight - opening.height
                          - headerH
        windowHeaderY == topPlateHeightOf(d) + headerTopOffsetOf(opening)
        windowJack == (d.wallHeight - bottomPlateHeight)
                         - (windowHeaderY + headerH)
    IN IF opening.type = "door"
       THEN [headerYPos |-> doorHeaderY,
             crippleAboveHeight |-> doorHeaderY - topPlateHeightOf(d),
             jackHeight |-> opening.height]
       ELSE [headerYPos |-> windowHeaderY,
             crippleAboveHeight |-> headerTopOffsetOf(opening),
             jackHeight |-> IF windowJack < 0 THEN 0 ELSE windowJack]

\* mutant: the jacks of a window are not clamped to a height of 0
HeaderGeometryJackUnclamped(d, opening) ==
    LET headerH == headerHeights(opening.headerSize)
        doorHeaderY == d.wallHeight - bottomPlateHeight - opening.height
                          - headerH
        windowHeaderY == topPlateHeightOf(d) + headerTopOffsetOf(opening)
    IN IF opening.type = "door"
       THEN [headerYPos |-> IF doorHeaderY < topPlateHeightOf(d)
                            THEN topPlateHeightOf(d) ELSE doorHeaderY,
             crippleAboveHeight |->
                 IF doorHeaderY < topPlateHeightOf(d) THEN 0
                 ELSE doorHeaderY - topPlateHeightOf(d),
             jackHeight |-> opening.height]
       ELSE [headerYPos |-> windowHeaderY,
             crippleAboveHeight |-> headerTopOffsetOf(opening),
             jackHeight |-> (d.wallHeight - bottomPlateHeight)
                              - (windowHeaderY + headerH)]

\* lines 225-258: where the header sits and how tall jacks and upper cripples
\* are
HeaderGeometry(d, opening) ==
    LET headerH == headerHeights(opening.headerSize)
        topPlateHeight == topPlateHeightOf(d)
        doorHeaderY == d.wallHeight - bottomPlateHeight - opening.height
                          - headerH
        doorCripple == doorHeaderY - topPlateHeight
        windowCripple == headerTopOffsetOf(opening)
        windowHeaderY == topPlateHeight + windowCripple
        windowJack == (d.wallHeight - bottomPlateHeight)
                         - (windowHeaderY + headerH)
    IN CASE opening.type = "door" ->
              IF doorCripple < 0
              THEN [headerYPos |-> topPlateHeight, crippleAboveHeight |-> 0,
                    jackHeight |-> opening.height]
              ELSE [headerYPos |-> doorHeaderY,
                    crippleAboveHeight |-> doorCripple,
                    jackHeight |-> opening.height]
         [] opening.type = "window" ->
              [headerYPos |-> windowHeaderY,
               crippleAboveHeight |-> windowCripple,
               jackHeight |-> IF windowJack < 0 THEN 0 ELSE windowJack]
         [] OTHER ->
              [headerYPos |-> topPlateHeight, crippleAboveHeight |-> 0,
               jackHeight |-> studHeightOf(d) - headerH]

\* the for loops of lines 261-281: count studs of one kind side by side from
\* firstX, from stud k (0-based)
RECURSIVE PushStudRun(_, _, _, _, _, _, _, _)
PushStudRun(acc, d, typeName, firstX, y, h, count, k) ==
    IF LoopEnds(acc, k >= count) THEN acc
    ELSE PushStudRun(
           PushCounted(acc, d.studSize, h, typeName,
                       firstX + k * STUD_THICKNESS, y, STUD_THICKNESS, h,
                       studDepths(d.studSize), "king-jack"),
           d, typeName, firstX, y, h, count, k + 1)

\* lines 288-292: the plies of one header, from ply p (0-based)
RECURSIVE PushHeaderPlies(_, _, _, _, _, _, _, _)
PushHeaderPlies(acc, opening, index, headerStartX, headerYPos, headerWidthInches, headerName, p) ==
    IF LoopEnds(acc, p >= opening.headerPly) THEN acc
    ELSE LET headerTotalDepth ==
                 opening.headerPly * ((3 * Unit) \div 2)
                   + (IF opening.headerPly > 1
                      THEN (opening.headerPly - 1) * (Unit \div 2) ELSE 0)
             plyZOffset == -(headerTotalDepth \div 2)
                             + p * ((3 * Unit) \div 2 + Unit \div 2)
                             + (3 * Unit) \div 4
             id == "header-" \o ToString(opening.id) \o "-" \o ToString(index)
                     \o "-" \o ToString(p)
         IN PushHeaderPlies(
              [acc EXCEPT !.members =
                  Append(@, Member3D(id, headerName, headerStartX, headerYPos,
                                     plyZOffset, headerWidthInches,
                                     headerHeights(opening.headerSize),
                                     (3 * Unit) \div 2, "header"))],
              opening, index, headerStartX, headerYPos, headerWidthInches,
              headerName, p + 1)

\* the while loops of lines 296-303 and 315-322, from crippleXPos
RECURSIVE PushCripples(_, _, _, _, _, _, _)
PushCripples(acc, d, crippleXPos, headerStartX, headerWidthInches, y, h) ==
    IF LoopEnds(acc, ~(crippleXPos < headerStartX + headerWidthInches)) THEN acc
    ELSE PushCripples(
           IF crippleXPos > headerStartX
           THEN PushCounted(acc, d.studSize, h, "cripple",
                            crippleXPos - STUD_THICKNESS \div 2, y,
                            STUD_THICKNESS, h, studDepths(d.studSize),
                            "cripple")
           ELSE acc,
           d, crippleXPos + d.studSpacing, headerStartX, headerWidthInches,
           y, h)

\* Math.ceil(headerStartX / studSpacing) * studSpacing
FirstCrippleX(d, headerStartX) ==
    CeilDiv(headerStartX, d.studSpacing) * d.studSpacing

\* lines 283-284
headerStartXOf(opening, frameStart) ==
    frameStart + opening.kingStudsPerSide * STUD_THICKNESS

headerWidthInchesOf(opening) ==
    opening.width + 2 * (opening.jackStudsPerSide * STUD_THICKNESS)

\* line 272
rightFrameStartOf(opening, frameStart) ==
    frameStart + opening.kingStudsPerSide * STUD_THICKNESS
        + opening.jackStudsPerSide * STUD_THICKNESS + opening.width

\* lines 260-281: left kings, left jacks, right jacks, right kings; geo is
\* the HeaderGeometry of the opening
PushKingsAndJacks(acc, d, opening, frameStart, geo) ==
    PushStudRun(
      PushStudRun(
        PushStudRun(
          PushStudRun(acc, d, "king", frameStart, topPlateHeightOf(d),
                      studHeightOf(d), opening.kingStudsPerSide, 0),
          d, "jack", headerStartXOf(opening, frameStart),
          geo.headerYPos + headerHeights(opening.headerSize), geo.jackHeight,
          opening.jackStudsPerSide, 0),
        d, "jack", rightFrameStartOf(opening, frameStart),
        geo.headerYPos + headerHeights(opening.headerSize), geo.jackHeight,
        opening.jackStudsPerSide, 0),
      d, "king",
      rightFrameStartOf(opening, frameStart)
        + opening.jackStudsPerSide * STUD_THICKNESS,
      topPlateHeightOf(d), studHeightOf(d), opening.kingStudsPerSide, 0)

\* lines 285-292
PushHeader(acc, d, opening, index, frameStart, geo) ==
    PushHeaderPlies(acc, opening, index, headerStartXOf(opening, frameStart),
                    geo.headerYPos, headerWidthInchesOf(opening),
                    opening.headerSize \o "x"
                      \o formatInchesForName(headerWidthInchesOf(opening))
                      \o " Header",
                    0)

\* lines 294-304
PushCripplesAbove(acc, d, opening, frameStart, geo) ==
    IF geo.crippleAboveHeight > (3 * Unit) \div 2
    THEN PushCripples(acc, d,
                      FirstCrippleX(d, headerStartXOf(opening, frameStart)),
                      headerStartXOf(opening, frameStart),
                      headerWidthInchesOf(opening), topPlateHeightOf(d),
                      geo.crippleAboveHeight)
    ELSE acc

\* mutant: no sill plate is pushed
PushSillSkipped(acc, d, opening, index, frameStart, sillY) == acc

\* lines 307-309: the sill plate at sillY
PushSill(acc, d, opening, index, frameStart, sillY) ==
    [acc EXCEPT !.members =
        Append(@, Member3D("sill-" \o ToString(opening.id) \o "-"
                             \o ToString(index),
                           d.studSize \o "x"
                             \o formatInchesForName(
                                  headerWidthInchesOf(opening))
                             \o " Sill Plate",
                           headerStartXOf(opening, frameStart), sillY, 0,
                           headerWidthInchesOf(opening), PLATE_THICKNESS,
                           studDepths(d.studSize), "sill"))]

\* lines 311-324: the cripples from cripplesBelowY down to the bottom plate
PushCripplesBelow(acc, d, opening, frameStart, cripplesBelowY) ==
    IF d.wallHeight - cripplesBelowY - bottomPlateHeight > 0
    THEN PushCripples(acc, d,
                      FirstCrippleX(d, headerStartXOf(opening, frameStart)),
                      headerStartXOf(opening, frameStart),
                      headerWidthInchesOf(opening), cripplesBelowY,
                      d.wallHeight - cripplesBelowY - bottomPlateHeight)
    ELSE acc

\* lines 306-325; sillY is where the sill plate of a window sits
PushSillAndCripples(acc, d, opening, index, frameStart, sillY) ==
    IF opening.type = "window"
    THEN PushCripplesBelow(
           PushSill(acc, d, opening, index, frameStart, sillY),
           d, opening, frameStart, sillY + PLATE_THICKNESS)
    ELSE acc

\* lines 260-325 for an opening whose frame starts at frameStart
PushFrame(acc, d, opening, index, frameStart, geo) ==
    PushSillAndCripples(
      PushCripplesAbove(
        PushHeader(
          PushKingsAndJacks(acc, d, opening, frameStart, geo),
          d, opening, index, frameStart, geo),
        d, opening, frameStart, geo),
      d, opening, index, frameStart,
      geo.headerYPos + headerHeights(opening.headerSize) + opening.height)

\* lines 216-325, the body of the forEach for one layout (index 0-based)
PushOpening(acc, d, layout, index) ==
    PushFrame(acc, d, layout.opening, index, layout.xStart,
              HeaderGeometry(d, layout.opening))

\* line 216: openingLayouts.forEach, from layout i (1-based)
RECURSIVE PushOpenings(_, _, _, _)
PushOpenings(acc, d, layouts, i) ==
    IF LoopEnds(acc, i > Len(layouts)) THEN acc
    ELSE PushOpenings(PushOpening(acc, d, layouts[i], i - 1), d, layouts,
                      i + 1)

PANEL_WIDTH == In(48)
PANEL_HEIGHT == In(96)

\* mutant: the last panel of a column is not clipped to the wall height
RECURSIVE PushPanelColumnUnclipped(_, _, _, _, _, _)
PushPanelColumnUnclipped(panels, d, currentPanelX, width, currentPanelY, panelCount) ==
    IF ~(currentPanelY < d.wallHeight) THEN panels
    ELSE PushPanelColumnUnclipped(
           Append(panels,
                  Member3D("sheathing-" \o ToString(panelCount),
                           "Sheathing " \o ToFixed1(width) \o "x"
                              \o ToFixed1(PANEL_HEIGHT),
                           currentPanelX, currentPanelY,
                           studDepths(d.studSize), width, PANEL_HEIGHT,
                           Unit \div 2, "sheathing")),
           d, currentPanelX, width, currentPanelY + PANEL_HEIGHT,
           panelCount + 1)

\* lines 341-364: one column of panels, from currentPanelY
RECURSIVE PushPanelColumn(_, _, _, _, _, _)
PushPanelColumn(panels, d, currentPanelX, width, currentPanelY, panelCount) ==
    IF ~(currentPanelY < d.wallHeight) THEN panels
    ELSE LET height == IF currentPanelY + PANEL_HEIGHT > d.wallHeight
                       THEN d.wallHeight - currentPanelY ELSE PANEL_HEIGHT
             panelName == "Sheathing " \o ToFixed1(width) \o "x"
                            \o ToFixed1(height)
         IN PushPanelColumn(
              Append(panels,
                     Member3D("sheathing-" \o ToString(panelCount), panelName,
                              currentPanelX, currentPanelY,
                              studDepths(d.studSize), width, height,
                              Unit \div 2, "sheathing")),
              d, currentPanelX, width, currentPanelY + height, panelCount + 1)

\* lines 335-366, from currentPanelX; column is the column of panels at
\* currentPanelX and panels holds the panels pushed before it
RECURSIVE PushPanelsFrom(_, _, _, _)
PushPanelColumns(panels, d, currentPanelX, column) ==
    PushPanelsFrom(panels \o column, d, currentPanelX + PANEL_WIDTH,
                   Len(panels) + Len(column) + 1)

PushPanelsFrom(panels, d, currentPanelX, panelCount) ==
    IF ~(currentPanelX < d.wallLength) THEN panels
    ELSE PushPanelColumns(
           panels, d, currentPanelX,
           PushPanelColumn(<<>>, d, currentPanelX,
                           IF currentPanelX + PANEL_WIDTH > d.wallLength
                           THEN d.wallLength - currentPanelX
                           ELSE PANEL_WIDTH,
                           0, panelCount))

\* lines 327-367
PushSheathing(acc, d) ==
    IF d.sheathing
    THEN [acc EXCEPT !.members = @ \o PushPanelsFrom(<<>>, d, 0, 1)]
    ELSE acc

\* lines 120-367 over the opening layouts and the stud positions of the wall
PushMembers(acc, d, layouts, xs) ==
    PushSheathing(
      PushOpenings(
        PushBlocking(
          PushStuds(PushPlates(acc, d), d, layouts, xs, 1),
          d, layouts, xs, 0),
        d, layouts, 1),
      d)

\* lines 102-370; counters is the initial memberIdCounters. The result pairs
\* the members returned with the counters the call ends with.
generateWallMembers(d, counters) ==
    PushMembers([members |-> <<>>, counters |-> counters], d,
                calculateOpeningLayouts(d.wallLength, d.openings),
                sortedUniqueXs(d))

----------------------------------------------------------------------------
(* calculationService: calculateWallCuts *)

\* isApprox(val, target)
\* mutant: only the exact length matches
isExactly(val, target) == val = target

\* line 17
isApprox(val, target) == Abs(val - target) < Hundredths(1)

\* sheet areas are kept in thousandths of a square inch
SquareFoot == 144 * 1000

\* (wallLength * wallHeight) / 144, wallLength in whole inches
SheathingArea(wallLength, wallHeight) ==
    (wallLength \div Unit) * (wallHeight \div Den)

\* (op.headerPly - 1) * headerHeight * headerLength / 144
SpacerArea(op, headerLength) ==
    ((op.headerPly - 1) * (headerHeights(op.headerSize) \div Den)
        * (headerLength \div Den)) \div 1000

\* addOtherCut: otherCuts is the list of (description, lengths) in the order
\* the descriptions were first used
addOtherCut(otherCuts, desc, length) ==
    IF \E k \in DOMAIN otherCuts : otherCuts[k].desc = desc
    THEN [otherCuts EXCEPT
            ![CHOOSE k \in DOMAIN otherCuts : otherCuts[k].desc = desc].cuts =
                Append(@, length)]
    ELSE Append(otherCuts, [desc |-> desc, cuts |-> <<length>>])

RECURSIVE addOtherCutTimes(_, _, _, _)
addOtherCutTimes(otherCuts, desc, length, n) ==
    IF Len(otherCuts) >= 0 /\ n <= 0 THEN otherCuts
    ELSE addOtherCutTimes(addOtherCut(otherCuts, desc, length), desc, length,
                          n - 1)

Repeat(v, n) == [k \in 1..n |-> v]

\* line 74
cutWallLength(d) == RoundInches(d.wallLength)

\* lines 91-93
commonStudLength(d) ==
    d.wallHeight - (IF d.doubleTopPlate THEN 2 ELSE 1) * PLATE_THICKNESS
        - PLATE_THICKNESS

\* lines 98-115: the stud positions, in hundredths of an inch
studLayoutPositions(d) ==
    LET wallLength == cutWallLength(d)
        startStudCount == OrOne(d.startStuds)
        endStudCount == OrOne(d.endStuds)
        onCenter == {i \in 1..(wallLength \div d.studSpacing + 1) :
                        i * d.studSpacing < wallLength}
        baseLeft(i) == i * d.studSpacing
                         - (d.studsOnCenter * STUD_THICKNESS) \div 2
    IN {RoundHundredths(i * STUD_THICKNESS) : i \in 0..(startStudCount - 1)}
       \cup {RoundHundredths(wallLength - (i + 1) * STUD_THICKNESS) :
                i \in 0..(endStudCount - 1)}
       \cup {RoundHundredths(baseLeft(i) + j * STUD_THICKNESS) :
                i \in {k \in onCenter :
                         /\ baseLeft(k) > (startStudCount - 1) * STUD_THICKNESS
                         /\ baseLeft(k) <
                               wallLength - endStudCount * STUD_THICKNESS},
                j \in 0..(d.studsOnCenter - 1)}

\* line 96
cutOpeningLayouts(d) == calculateOpeningLayouts(cutWallLength(d), d.openings)

\* the positions in inches
InInches(positions) == {h * Hundredths(1) : h \in positions}

\* lines 119-125: the positions (in inches) whose stud is counted, among the
\* studLayoutPositions
CountedAmong(layouts, positions) ==
    {xPos \in InInches(positions) :
        ~InsideAnOpening(layouts, xPos + STUD_THICKNESS \div 2)}

countedStudPositions(d) ==
    CountedAmong(cutOpeningLayouts(d), studLayoutPositions(d))

\* lines 128-144, from gap i (0-based) of the sorted positions
blockingCutsOfGap(d, layouts, sorted, i) ==
    LET currentEnd == sorted[i + 1] + STUD_THICKNESS
        gap == sorted[i + 2] - currentEnd
        blockCenter == currentEnd + gap \div 2
    IN IF gap > In(3) /\ ~InsideAnOpening(layouts, blockCenter)
       THEN Repeat([length |-> gap, size |-> d.studSize], d.blockingRows)
       ELSE <<>>

\* lines 127-144: the blocks of every gap from gap i on
blockingCutsFrom(d, layouts, sorted, i) ==
    IF ~(d.blockingRows > 0) THEN <<>>
    ELSE Flatten([k \in 1..(Len(sorted) - 1 - i) |->
                    blockingCutsOfGap(d, layouts, sorted, i + k - 1)])

\* lines 149-182: the stud lengths one opening adds to allStudLengths
openingStudLengths(d, op) ==
    LET headerLength == op.width + op.jackStudsPerSide * STUD_THICKNESS * 2
        fullLengthStudsNeeded ==
            op.kingStudsPerSide * 2 + op.jackStudsPerSide * 2
        topPlateHeight == (IF d.doubleTopPlate THEN 2 ELSE 1) * PLATE_THICKNESS
        headerHeight == headerHeights(op.headerSize)
        numCripplePositions == FloorDiv(headerLength, d.studSpacing)
        crippleBelowLength ==
            d.wallHeight - topPlateHeight - PLATE_THICKNESS - headerHeight
                - op.height - PLATE_THICKNESS
        crippleAboveLength ==
            (d.wallHeight - topPlateHeight) - (op.height + headerHeight)
    IN Repeat(commonStudLength(d), fullLengthStudsNeeded)
       \o (CASE op.type = "window" ->
                 IF crippleBelowLength > 0
                 THEN Repeat(crippleBelowLength, numCripplePositions)
                 ELSE <<>>
             [] op.type = "door" ->
                 IF crippleAboveLength > 0 /\ crippleAboveLength > In(1)
                 THEN Repeat(crippleAboveLength, numCripplePositions)
                 ELSE <<>>
             [] OTHER -> <<>>)

\* lines 147-190: the other cuts of the openings, from layout i (1-based)
RECURSIVE openingOtherCuts(_, _, _, _)
openingOtherCuts(otherCuts, d, layouts, i) ==
    IF Len(otherCuts) >= 0 /\ i > Len(layouts) THEN otherCuts
    ELSE LET op == layouts[i].opening
             headerLength == op.width + op.jackStudsPerSide * STUD_THICKNESS * 2
             o1 == IF op.type = "window"
                   THEN addOtherCut(otherCuts, d.studSize \o " Plate",
                                    headerLength)
                   ELSE otherCuts
             o2 == addOtherCutTimes(o1, op.headerSize \o " Header",
                                    headerLength, op.headerPly)
             o3 == IF op.headerPly > 1
                   THEN addOtherCut(o2, "1/2\" Plywood Spacer",
                                    SpacerArea(op, headerLength))
                   ELSE o2
         IN openingOtherCuts(o3, d, layouts, i + 1)

\* lines 77-88
plateAndSheetCuts(d) ==
    LET wallLength == cutWallLength(d)
        topPlateMaterial == d.studSize \o " Plate"
        bottomPlateMaterial ==
            IF d.pressureTreatedBottomPlate THEN d.studSize \o " PT Plate"
            ELSE d.studSize \o " Plate"
        o1 == addOtherCutTimes(<<>>, topPlateMaterial, wallLength,
                               IF d.doubleTopPlate THEN 2 ELSE 1)
        o2 == addOtherCut(o1, bottomPlateMaterial, wallLength)
    IN IF d.sheathing
       THEN addOtherCut(o2, d.sheathingType \o " Sheet (4x8)",
                        SheathingArea(wallLength, d.wallHeight))
       ELSE o2

\* lines 118-125 and 147-182: allStudLengths over the opening layouts and
\* the studLayoutPositions
StudLengthsOver(d, layouts, positions) ==
    Repeat(commonStudLength(d), Cardinality(CountedAmong(layouts, positions)))
       \o Flatten([i \in DOMAIN layouts |->
                     openingStudLengths(d, layouts[i].opening)])

allStudLengths(d) ==
    StudLengthsOver(d, cutOpeningLayouts(d), studLayoutPositions(d))

\* lines 193-197: the lengths that are no pre-cut stud
CustomLengths(lengths) ==
    SelectSeq(lengths, LAMBDA len : ~isApprox(len, Eighths(741))
                                    /\ ~isApprox(len, Eighths(837)))

\* lines 193-197
StudCutsOf(d, custom) ==
    [k \in DOMAIN custom |-> [length |-> custom[k], size |-> d.studSize]]

\* lines 62-67 and 127-199, given allStudLengths
RawCutsOf(d, layouts, positions, lengths) ==
    [studCuts |-> StudCutsOf(d, CustomLengths(lengths)),
     blockingCuts |->
        blockingCutsFrom(d, layouts, SortedSeqOf(InInches(positions)), 0),
     otherCuts |-> openingOtherCuts(plateAndSheetCuts(d), d, layouts, 1),
     precut92 |->
        [count |-> Cardinality({k \in DOMAIN lengths :
                                  isApprox(lengths[k], Eighths(741))}),
         size |-> d.studSize],
     precut104 |->
        [count |-> Cardinality({k \in DOMAIN lengths :
                                  ~isApprox(lengths[k], Eighths(741))
                                  /\ isApprox(lengths[k], Eighths(837))}),
         size |-> d.studSize]]

\* lines 96-199 over the opening layouts and the studLayoutPositions
RawCutsOver(d, layouts, positions) ==
    RawCutsOf(d, layouts, positions, StudLengthsOver(d, layouts, positions))

\* lines 60-200
calculateWallCuts(d) ==
    RawCutsOver(d, cutOpeningLayouts(d), studLayoutPositions(d))

----------------------------------------------------------------------------
(* calculationService: optimizeCuts *)

DEFAULT_STOCK_LENGTHS == <<In(192), In(144), In(120), In(96)>>

Reverse(s) == [i \in 1..Len(s) |-> s[Len(s) + 1 - i]]

\* [...cuts].sort((a, b) => b - a)
\* the cut goes in front of the first cut it exceeds
InsertDescending(s, e) ==
    LET smaller == {i \in DOMAIN s : s[i] < e}
        at == IF smaller = {} THEN Len(s) + 1
              ELSE CHOOSE i \in smaller : \A j \in smaller : i <= j
    IN SubSeq(s, 1, at - 1) \o <<e>> \o SubSeq(s, at, Len(s))

SortDescending(s) == SortSeq(s, LAMBDA a, b : a > b)

\* mutant: a cut goes into the first bin that has any room left
FirstBinWithRoom(bins, cut, b) ==
    LET open == {k \in b..Len(bins) : 0 < bins[k].remaining}
    IN IF open = {} THEN 0 ELSE FirstOf(open)

\* lines 25-31: the index of the first open bin the cut fits, 0 if none
FirstFittingBin(bins, cut, b) ==
    LET fitting == {k \in b..Len(bins) : cut <= bins[k].remaining}
    IN IF fitting = {} THEN 0 ELSE FirstOf(fitting)

\* lines 33-39: the first length of the candidate list the cut fits, 0 if none
FirstFittingStock(candidates, cut, k) ==
    LET fitting == {j \in k..Len(candidates) : cut <= candidates[j]}
    IN IF fitting = {} THEN 0 ELSE candidates[FirstOf(fitting)]

\* mutant: the stock lengths are tried as listed, longest first
StockCandidatesAsListed(stock) == stock

\* line 33: the order in which the stock lengths are tried
StockCandidates(stock) == Reverse(stock)

\* lines 43-48: the bins counted per length, in order of first appearance
\* lines 44-47: one bin counted under its length
CountBin(result, bin) ==
    LET at == {k \in DOMAIN result : result[k].length = bin.length}
    IN IF at = {} THEN Append(result, [length |-> bin.length, count |-> 1])
       ELSE [result EXCEPT ![FirstOf(at)].count = @ + 1]

\* bins lo..hi counted in order, by halves
RECURSIVE CountBinsOver(_, _, _, _)
CountBinsOver(result, bins, lo, hi) ==
    IF Len(result) >= 0 /\ lo > hi THEN result
    ELSE IF lo = hi THEN CountBin(result, bins[lo])
    ELSE CountBinsOver(CountBinsOver(result, bins, lo, (lo + hi) \div 2),
                       bins, (lo + hi) \div 2 + 1, hi)

CountBins(bins, result) == CountBinsOver(result, bins, 1, Len(bins))

\* lines 23-40: one cut placed in the first open bin it fits, else in a new
\* bin of the first candidate stock length it fits, else dropped
PlaceCut(bins, cut, stock) ==
    LET bin == FirstFittingBin(bins, cut, 1)
        stockLength == FirstFittingStock(StockCandidates(stock), cut, 1)
    IN IF bin # 0 THEN [bins EXCEPT ![bin].remaining = @ - cut]
       ELSE IF stockLength # 0
       THEN Append(bins, [length |-> stockLength,
                          remaining |-> stockLength - cut])
       ELSE bins

\* cuts lo..hi of the sorted cuts placed in order, by halves
RECURSIVE PlaceCutsOver(_, _, _, _, _)
PlaceCutsOver(bins, sorted, stock, lo, hi) ==
    IF Len(bins) >= 0 /\ lo > hi THEN bins
    ELSE IF lo = hi THEN PlaceCut(bins, sorted[lo], stock)
    ELSE PlaceCutsOver(
            PlaceCutsOver(bins, sorted, stock, lo, (lo + hi) \div 2),
            sorted, stock, (lo + hi) \div 2 + 1, hi)

PlaceCuts(bins, sorted, stock) ==
    PlaceCutsOver(bins, sorted, stock, 1, Len(sorted))

\* lines 19-49, the call as a whole
optimizeCuts(cutList, stock) ==
    CountBins(PlaceCuts(<<>>, SortDescending(cutList), stock), <<>>)

----------------------------------------------------------------------------
(* calculationService: processRawCuts *)

\* String.prototype.includes
Includes(text, word) ==
    \E i \in 1..(Len(text) - Len(word) + 1) :
        SubSeq(text, i, i + Len(word) - 1) = word

PRECUT_STUD_LENGTHS(key) ==
    CASE key = "92.625" -> "92 5/8\""
      [] key = "104.625" -> "104 5/8\""

\* Math.round(c * 1000) / 1000
RoundToThousandth(c) == FloorDiv(2 * c + Den, 2 * Den) * Den

MaterialItem(quantity, description, length) ==
    [quantity |-> quantity, description |-> description, length |-> length]

\* lines 207-212: the pre-cut items
PrecutItems(raw92, raw104) ==
    (IF raw92.count > 0
     THEN <<MaterialItem(raw92.count, raw92.size \o " Pre-cut Studs",
                         PRECUT_STUD_LENGTHS("92.625"))>>
     ELSE <<>>)
    \o (IF raw104.count > 0
        THEN <<MaterialItem(raw104.count, raw104.size \o " Pre-cut Studs",
                            PRECUT_STUD_LENGTHS("104.625"))>>
        ELSE <<>>)

\* lines 215-219 and 228-232: the sizes of the cuts in order of first use
SizesOf(sizedCuts, sizes) ==
    LET firstUses == SelectSeq(
            [k \in DOMAIN sizedCuts |->
                [size |-> sizedCuts[k].size,
                 first |-> \A j \in 1..(k - 1) :
                              sizedCuts[j].size # sizedCuts[k].size]],
            LAMBDA c : c.first
                       /\ \A k \in DOMAIN sizes : sizes[k] # c.size)
    IN sizes \o [k \in DOMAIN firstUses |-> firstUses[k].size]

\* lines 216-219 and 229-232: the lengths of the cuts of one size
LengthsOfSize(sizedCuts, size) ==
    LET ofSize == SelectSeq(sizedCuts, LAMBDA c : c.size = size)
    IN [k \in DOMAIN ofSize |-> ofSize[k].length]

\* lines 221 and 234: the rounded lengths of the cuts of one size
CutsOfSize(sizedCuts, size) ==
    LET lengths == LengthsOfSize(sizedCuts, size)
    IN [k \in DOMAIN lengths |-> RoundToThousandth(lengths[k])]

\* one call optimizeCuts(cuts, stock) whose bins become items named desc;
\* from names the raw cuts the call was made for
OptimizeCall(desc, from, cutList, stock) ==
    [desc |-> desc, from |-> from, cuts |-> cutList, stock |-> stock]

\* lines 220-225 and 233-238: one optimizeCuts call per size
SizedCalls(sizedCuts, sizes, suffix, stock) ==
    [k \in DOMAIN sizes |->
        OptimizeCall(sizes[k] \o suffix, LengthsOfSize(sizedCuts, sizes[k]),
                     CutsOfSize(sizedCuts, sizes[k]), stock)]

\* lines 220-225
StudCalls(studCuts) ==
    SizedCalls(studCuts, SizesOf(studCuts, <<>>), " Stud",
               DEFAULT_STOCK_LENGTHS)

\* line 235
BlockingStock == <<In(192)>>

\* lines 233-238
BlockingCalls(blockingCuts) ==
    SizedCalls(blockingCuts, SizesOf(blockingCuts, <<>>), " Blocking",
               BlockingStock)

\* lines 251-256: the pieces one cut is split into
RECURSIVE PreSplit(_)
PreSplit(remaining) ==
    IF remaining > In(192) THEN <<In(192)>> \o PreSplit(remaining - In(192))
    ELSE IF remaining > 0 THEN <<remaining>>
    ELSE <<>>

\* lines 249-257
processedCutsOf(allCuts) ==
    Flatten([k \in DOMAIN allCuts |-> PreSplit(allCuts[k])])

\* lines 260-264
stockLengthsToUse(desc) ==
    IF Includes(desc, "Plate") \/ Includes(desc, "Header")
    THEN <<In(192)>>
    ELSE DEFAULT_STOCK_LENGTHS

IsSheet(desc) == Includes(desc, "Plywood") \/ Includes(desc, "Sheet (4x8)")

\* lines 243-246: areas are in thousandths of a square inch
SheetItems(desc, totalSqFt) ==
    IF totalSqFt > 0
    THEN <<MaterialItem(CeilDiv(totalSqFt, 32 * SquareFoot), desc, 0)>>
    ELSE <<>>

\* lines 248-269: the call made for one description that is no sheet
OtherCallsOf(other, processedCuts) ==
    IF Len(processedCuts) > 0
    THEN <<OptimizeCall(other.desc, other.cuts, processedCuts,
                        stockLengthsToUse(other.desc))>>
    ELSE <<>>

\* lines 241-271: the optimizeCuts calls made for the other materials
OtherCalls(otherCuts) ==
    Flatten([k \in DOMAIN otherCuts |->
               IF IsSheet(otherCuts[k].desc) THEN <<>>
               ELSE OtherCallsOf(otherCuts[k],
                                 processedCutsOf(otherCuts[k].cuts))])

\* every optimizeCuts call of processRawCuts(raw), in order
optimizeCallsOf(rawCuts) ==
    StudCalls(rawCuts.studCuts) \o BlockingCalls(rawCuts.blockingCuts)
        \o OtherCalls(rawCuts.otherCuts)

\* lines 222-224, 235-237, 266-268: the items of one call
ItemsOfBins(desc, binCounts) ==
    [k \in DOMAIN binCounts |->
        MaterialItem(binCounts[k].count, desc, binCounts[k].length)]

ItemsOfCall(call) ==
    ItemsOfBins(call.desc, optimizeCuts(call.cuts, call.stock))

ItemsOfCalls(calls) == Flatten([k \in DOMAIN calls |-> ItemsOfCall(calls[k])])

\* lines 241-271: the items of one description of raw.otherCuts
OtherItemsOf(other) ==
    IF IsSheet(other.desc) THEN SheetItems(other.desc, SeqSum(other.cuts))
    ELSE ItemsOfCalls(OtherCallsOf(other, processedCutsOf(other.cuts)))

\* lines 203-274
processRawCuts(rawCuts) ==
    PrecutItems(rawCuts.precut92, rawCuts.precut104)
        \o ItemsOfCalls(StudCalls(rawCuts.studCuts))
        \o ItemsOfCalls(BlockingCalls(rawCuts.blockingCuts))
        \o Flatten([k \in DOMAIN rawCuts.otherCuts |->
                      OtherItemsOf(rawCuts.otherCuts[k])])

----------------------------------------------------------------------------
(* calculationService: sortMaterialList *)

\* the characters of the descriptions in the order of the root collation:
\* space, punctuation, digits, letters; a capital shares its letter's place
CollationLower == " -.\"()/0123456789abcdefghijklmnopqrstuvwxyz"
CollationUpper == " -.\"()/0123456789ABCDEFGHIJKLMNOPQRSTUVWXYZ"

CharAt(text, i) == SubSeq(text, i, i)

PrimaryWeight(ch) ==
    CHOOSE i \in 1..Len(CollationLower) :
        CharAt(CollationLower, i) = ch \/ CharAt(CollationUpper, i) = ch

IsUpper(ch) ==
    \E i \in 18..Len(CollationUpper) : CharAt(CollationUpper, i) = ch

\* the order of two texts that differ in case only: lower case first
CaseCompare(a, b) ==
    LET differing == {i \in 1..Len(a) : CharAt(a, i) # CharAt(b, i)}
    IN IF differing = {} THEN 0
       ELSE IF IsUpper(CharAt(a, FirstOf(differing))) THEN 1 ELSE -1

\* the positions at which the two texts differ by more than case
WeightDiffers(a, b) ==
    {i \in 1..(IF Len(a) < Len(b) THEN Len(a) ELSE Len(b)) :
        /\ CharAt(a, i) # CharAt(b, i)
        /\ PrimaryWeight(CharAt(a, i)) # PrimaryWeight(CharAt(b, i))}

\* the order at the first position that differs by more than case
WeightOrder(a, b, i) ==
    PrimaryWeight(CharAt(a, i)) - PrimaryWeight(CharAt(b, i))

\* a.localeCompare(b): negative, zero or positive
localeCompare(a, b) ==
    IF WeightDiffers(a, b) # {}
    THEN WeightOrder(a, b, FirstOf(WeightDiffers(a, b)))
    ELSE IF Len(a) < Len(b) THEN -1
    ELSE IF Len(a) > Len(b) THEN 1
    ELSE CaseCompare(a, b)

\* lines 280-282
descriptionWithGrade(description) ==
    IF Includes(description, "Plywood") \/ Includes(description, "Sheet")
    THEN description
    ELSE IF Includes(description, "Pre-cut") THEN description
    ELSE description \o " No. 2 or Better"

\* `${item.length}`: a pre-cut length is text already, every other length is
\* a whole number of inches and prints as its digits
LengthText(item) ==
    IF Includes(item.description, "Pre-cut") THEN item.length
    ELSE ToString(item.length \div Unit)

\* mutant: the key leaves the length out
MaterialKeyOfDescription(item) == descriptionWithGrade(item.description)

\* line 283
MaterialKey(item) ==
    descriptionWithGrade(item.description) \o "-" \o LengthText(item)

\* lines 284-288: map is the list of (key, item) in order of insertion
MergeItem(map, item, key) ==
    IF \E k \in DOMAIN map : map[k].key = key
    THEN [map EXCEPT
            ![CHOOSE k \in DOMAIN map : map[k].key = key].item.quantity =
                @ + item.quantity]
    ELSE Append(map, [key |-> key,
                      item |-> [item EXCEPT !.description =
                                    descriptionWithGrade(@)]])

\* lines 278-289
\* items lo..hi of the list merged in order, by halves
RECURSIVE MergeItemsOver(_, _, _, _)
MergeItemsOver(map, list, lo, hi) ==
    IF Len(map) >= 0 /\ lo > hi THEN map
    ELSE IF lo = hi THEN MergeItem(map, list[lo], MaterialKey(list[lo]))
    ELSE MergeItemsOver(MergeItemsOver(map, list, lo, (lo + hi) \div 2),
                        list, (lo + hi) \div 2 + 1, hi)

MergeItems(map, list) == MergeItemsOver(map, list, 1, Len(list))

\* lines 291-297: the comparator of the sort
CompareItems(a, b) ==
    LET aIsStud == Includes(a.description, "Stud")
        bIsStud == Includes(b.description, "Stud")
    IN IF aIsStud /\ ~bIsStud THEN -1
       ELSE IF ~aIsStud /\ bIsStud THEN 1
       ELSE localeCompare(a.description, b.description)

\* Array.prototype.sort is stable: an item goes behind the items it does not
\* precede
InsertItem(sorted, item) ==
    LET later == {i \in DOMAIN sorted : CompareItems(item, sorted[i]) < 0}
        at == IF later = {} THEN Len(sorted) + 1
              ELSE CHOOSE i \in later : \A j \in later : i <= j
    IN SubSeq(sorted, 1, at - 1) \o <<item>> \o SubSeq(sorted, at, Len(sorted))

\* items lo..hi inserted in order, by halves
RECURSIVE SortItemsOver(_, _, _, _)
SortItemsOver(sorted, items, lo, hi) ==
    IF Len(sorted) >= 0 /\ lo > hi THEN sorted
    ELSE IF lo = hi THEN InsertItem(sorted, items[lo])
    ELSE SortItemsOver(SortItemsOver(sorted, items, lo, (lo + hi) \div 2),
                       items, (lo + hi) \div 2 + 1, hi)

SortItems(items) == SortItemsOver(<<>>, items, 1, Len(items))

ValuesOf(map) == [k \in DOMAIN map |-> map[k].item]

\* lines 277-298
sortMaterialList(list) == SortItems(ValuesOf(MergeItems(<<>>, list)))

\* lines 300-304
calculateSingleWallMaterials(d) ==
    sortMaterialList(processRawCuts(calculateWallCuts(d)))

----------------------------------------------------------------------------
(* calculationService: aggregateRawCuts and calculateProjectMaterials *)

\* lines 325-326: a count added to the entry of its size; the map is the list
\* of (size, count) in order of insertion
AddPrecut(map, precut) ==
    IF precut.count <= 0 THEN map
    ELSE IF \E k \in DOMAIN map : map[k].size = precut.size
    THEN [map EXCEPT
            ![CHOOSE k \in DOMAIN map : map[k].size = precut.size].count =
                @ + precut.count]
    ELSE Append(map, precut)

\* line 328-331: the lengths of one description appended to the global entry
RECURSIVE AddOtherCuts(_, _)
AddOtherCuts(globalOther, wallOther) ==
    IF wallOther = <<>> THEN globalOther
    ELSE AddOtherCuts(
            IF \E k \in DOMAIN globalOther :
                   globalOther[k].desc = Head(wallOther).desc
            THEN [globalOther EXCEPT
                    ![CHOOSE k \in DOMAIN globalOther :
                        globalOther[k].desc = Head(wallOther).desc].cuts =
                            @ \o Head(wallOther).cuts]
            ELSE Append(globalOther, Head(wallOther)),
            Tail(wallOther))

\* lines 319-332: the cuts of one wall added to the aggregate
AddWallCuts(agg, wallCuts) ==
    [studCuts |-> agg.studCuts \o wallCuts.studCuts,
     blockingCuts |-> agg.blockingCuts \o wallCuts.blockingCuts,
     otherCuts |-> AddOtherCuts(agg.otherCuts, wallCuts.otherCuts),
     precut92Map |-> AddPrecut(agg.precut92Map, wallCuts.precut92),
     precut104Map |-> AddPrecut(agg.precut104Map, wallCuts.precut104)]

RECURSIVE AggregateFrom(_, _)
AggregateFrom(agg, wallList) ==
    IF Len(agg.studCuts) >= 0 /\ wallList = <<>> THEN agg
    ELSE AggregateFrom(
            AddWallCuts(agg, calculateWallCuts(Head(wallList).details)),
            Tail(wallList))

\* mutant: only the 92 5/8" pre-cut studs reach the consolidated list
consolidatedListOf92Only(agg) ==
    [k \in DOMAIN agg.precut92Map |->
        MaterialItem(agg.precut92Map[k].count,
                     agg.precut92Map[k].size \o " Pre-cut Studs",
                     PRECUT_STUD_LENGTHS("92.625"))]

\* lines 334-341
consolidatedListOf(agg) ==
    [k \in DOMAIN agg.precut92Map |->
        MaterialItem(agg.precut92Map[k].count,
                     agg.precut92Map[k].size \o " Pre-cut Studs",
                     PRECUT_STUD_LENGTHS("92.625"))]
    \o [k \in DOMAIN agg.precut104Map |->
          MaterialItem(agg.precut104Map[k].count,
                       agg.precut104Map[k].size \o " Pre-cut Studs",
                       PRECUT_STUD_LENGTHS("104.625"))]

\* lines 308-314 with lines 363-367 and 378-382: globalRawCuts with its
\* pre-cut counts, which stay 0
globalRawCutsOf(agg) ==
    [studCuts |-> agg.studCuts, blockingCuts |-> agg.blockingCuts,
     otherCuts |-> agg.otherCuts,
     precut92 |-> [count |-> 0, size |-> "2x4"],
     precut104 |-> [count |-> 0, size |-> "2x4"]]

\* lines 307-344
aggregateRawCuts(wallList) ==
    AggregateFrom([studCuts |-> <<>>, blockingCuts |-> <<>>,
                   otherCuts |-> <<>>, precut92Map |-> <<>>,
                   precut104Map |-> <<>>], wallList)

\* lines 362-370 and 376-384, given the aggregate
BulkMaterialsOf(agg) ==
    sortMaterialList(consolidatedListOf(agg)
                        \o processRawCuts(globalRawCutsOf(agg)))

BulkMaterials(wallList) == BulkMaterialsOf(aggregateRawCuts(wallList))

\* mutant: only the walls that name the floor
floorWallsNamingFloor(wallList, floorList, floor) ==
    SelectSeq(wallList,
              LAMBDA w : IsSet(w.floorId) /\ Val(w.floorId) = floor.id)

\* line 360: !w.floorId holds for a missing floorId and for the empty text
floorWallsOf(wallList, floorList, floor) ==
    SelectSeq(wallList,
              LAMBDA w : IF IsSet(w.floorId) /\ Val(w.floorId) # ""
                         THEN Val(w.floorId) = floor.id
                         ELSE floor.id = floorList[1].id)

\* byWall[id] = entry, byFloor[id] = entry: the map is the list of entries
\* in order of insertion; an entry with the id of an earlier one replaces it
PutEntry(entries, entry) ==
    IF \E k \in DOMAIN entries : entries[k].id = entry.id
    THEN [entries EXCEPT
            ![CHOOSE k \in DOMAIN entries : entries[k].id = entry.id] = entry]
    ELSE Append(entries, entry)

\* lines 351-356: byWall as the list of (id, wallName, materials)
RECURSIVE byWallOf(_, _)
byWallOf(byWall, wallList) ==
    IF wallList = <<>> THEN byWall
    ELSE byWallOf(
            PutEntry(byWall,
                     [id |-> Head(wallList).id,
                      wallName |-> Head(wallList).name,
                      materials |-> calculateSingleWallMaterials(
                                        Head(wallList).details)]),
            Tail(wallList))

\* lines 361-372
PutFloor(byFloor, floor, floorWalls) ==
    IF Len(floorWalls) > 0
    THEN PutEntry(byFloor, [id |-> floor.id, floorName |-> floor.name,
                            materials |-> BulkMaterials(floorWalls)])
    ELSE byFloor

\* lines 359-373: byFloor as the list of (id, floorName, materials)
RECURSIVE byFloorOf(_, _, _, _)
byFloorOf(byFloor, wallList, floorList, i) ==
    IF i > Len(floorList) THEN byFloor
    ELSE byFloorOf(PutFloor(byFloor, floorList[i],
                            floorWallsOf(wallList, floorList, floorList[i])),
                   wallList, floorList, i + 1)

\* lines 346-391
calculateProjectMaterials(wallList, floorList) ==
    [list |-> BulkMaterials(wallList),
     byWall |-> byWallOf(<<>>, wallList),
     byFloor |-> byFloorOf(<<>>, wallList, floorList, 1)]

----------------------------------------------------------------------------
(* App: the default wall, and the inputs the model enumerates *)

defaultWallDetails ==
    [wallLength |-> In(192), wallHeight |-> Eighths(777), studSize |-> "2x4",
     studSpacing |-> In(16), studsOnCenter |-> 1, doubleTopPlate |-> TRUE,
     pressureTreatedBottomPlate |-> FALSE, blockingRows |-> 0,
     startStuds |-> 1, endStuds |-> 1, sheathing |-> FALSE,
     sheathingType |-> "1/2\" OSB", openings |-> <<>>]

\* the opening handleAddOpening creates
NewOpening(type) ==
    [id |-> 0, type |-> type, quantity |-> 1, width |-> In(36),
     height |-> IF type = "window" THEN In(48) ELSE In(80),
     headerSize |-> "2x8", headerPly |-> 2, kingStudsPerSide |-> 1,
     jackStudsPerSide |-> 1, centerOffset |-> Undefined,
     headerTopOffset |-> Undefined]

\* opening ids are unique within a wall: the position in the list
WithIds(ops) == [i \in 1..Len(ops) |-> [ops[i] EXCEPT !.id = i]]

LayoutWallLengths == {In(48), Eighths(804), In(192)}
LayoutWidths == {0, In(30), In(40)}
LayoutOffsets == {Undefined, Some(In(24)), Some(In(60))}

LayoutOpenings ==
    {[NewOpening("window") EXCEPT !.quantity = q, !.width = w,
                                  !.centerOffset = c] :
        q \in 0..MaxQuantity, w \in LayoutWidths, c \in LayoutOffsets}

GenIdle ==
    /\ members = <<>>
    /\ otherMembers = <<>>
    /\ memberIdCounters = <<>>
    /\ firstMembers = <<>>
    /\ callLog = <<>>
    /\ raw = <<>>
    /\ cutHistory = <<>>

OptIdle ==
    /\ cuts = <<>>
    /\ stockLengths = <<>>
    /\ sortedCuts = <<>>
    /\ stockBins = <<>>
    /\ cutIndex = 0
    /\ optimized = <<>>
    /\ binCuts = <<>>

ProjIdle ==
    /\ materialList = <<>>
    /\ optimizeLog = <<>>
    /\ walls = <<>>
    /\ floors = <<>>
    /\ materials = <<>>
    /\ projectLog = <<>>

InitLayout ==
    /\ \E l \in LayoutWallLengths :
         \E ops \in SeqsUpTo(LayoutOpenings, MaxOpenings) :
            details = [defaultWallDetails EXCEPT !.wallLength = l,
                                                 !.openings = WithIds(ops)]
    /\ openingLayouts = <<>>
    /\ pc = "input"
    /\ OptIdle
    /\ GenIdle
    /\ ProjIdle

----------------------------------------------------------------------------
(* WallEditor: OpeningRow.handleChange *)

handleChange(opening, field, value) ==
    LET base == CASE field = "quantity" -> [opening EXCEPT !.quantity = value]
                  [] field = "centerOffset" ->
                        [opening EXCEPT !.centerOffset = value]
                  [] field = "width" -> [opening EXCEPT !.width = value]
        cleared == IF field = "quantity" /\ value > 1
                   THEN [base EXCEPT !.centerOffset = Undefined]
                   ELSE base
    IN IF field = "centerOffset" /\ IsSet(value) /\ opening.quantity > 1
       THEN [cleared EXCEPT !.quantity = 1]
       ELSE cleared

\* handleOpeningUpdate: the edited opening replaces the one with its id; the
\* results computed from the old wall are recomputed on the next render
HandleChange ==
    \E i \in 1..Len(details.openings) :
      \E field \in {"quantity", "centerOffset", "width"} :
        \E value \in CASE field = "quantity" -> 1..MaxQuantity
                       [] field = "centerOffset" -> LayoutOffsets
                       [] field = "width" -> LayoutWidths :
          /\ details' = [details EXCEPT
                           !.openings[i] = handleChange(@, field, value)]
          /\ openingLayouts' = <<>>
          /\ pc' = "input"
          /\ UNCHANGED <<optVars, genVars, projVars>>

\* a caller resolves the openings of the wall
ResolveOpenings ==
    /\ pc = "input"
    /\ openingLayouts' =
          calculateOpeningLayouts(details.wallLength, details.openings)
    /\ details' = [details EXCEPT !.openings = openingsAfterLayout(@)]
    /\ pc' = "resolved"
    /\ UNCHANGED <<optVars, genVars, projVars>>

NextLayout == HandleChange \/ ResolveOpenings

SpecLayout == InitLayout /\ [][NextLayout]_vars

----------------------------------------------------------------------------
(* calculationService: optimizeCuts, step by step *)

\* lines 23-41, one iteration of the loop over sortedCuts
OptimizeCutsPlace ==
    /\ pc = "placing"
    /\ cutIndex < Len(sortedCuts)
    /\ LET cut == sortedCuts[cutIndex + 1]
           bin == FirstFittingBin(stockBins, cut, 1)
           stockLength ==
               FirstFittingStock(StockCandidates(stockLengths), cut, 1)
       IN IF bin # 0
          THEN /\ stockBins' = [stockBins EXCEPT ![bin].remaining = @ - cut]
               /\ binCuts' = [binCuts EXCEPT ![bin] = Append(@, cut)]
          ELSE IF stockLength # 0
          THEN /\ stockBins' = Append(stockBins,
                                  [length |-> stockLength,
                                   remaining |-> stockLength - cut])
               /\ binCuts' = Append(binCuts, <<cut>>)
          ELSE UNCHANGED <<stockBins, binCuts>>
    /\ cutIndex' = cutIndex + 1
    /\ UNCHANGED <<wallVars, pc, cuts, stockLengths, sortedCuts, optimized>>
    /\ UNCHANGED projVars

\* lines 43-48
OptimizeCutsReturn ==
    /\ pc = "placing"
    /\ cutIndex = Len(sortedCuts)
    /\ optimized' = CountBins(stockBins, <<>>)
    /\ pc' = "optimized"
    /\ UNCHANGED <<wallVars, cuts, stockLengths, sortedCuts, stockBins,
                   cutIndex, binCuts>>
    /\ UNCHANGED projVars

\* the cut lengths and stock lists the model enumerates; the stock lists are
\* the two processRawCuts passes
CutLengths == {In(48), In(60), In(96), In(130), In(150), In(200)}
StockLists == {DEFAULT_STOCK_LENGTHS, <<In(192)>>}

\* lines 19-21: the call, with the sort and the empty bin list
InitOpt ==
    /\ cuts \in SeqsUpTo(CutLengths, MaxCuts)
    /\ stockLengths \in StockLists
    /\ sortedCuts = SortDescending(cuts)
    /\ stockBins = <<>>
    /\ cutIndex = 0
    /\ optimized = <<>>
    /\ binCuts = <<>>
    /\ pc = "placing"
    /\ details = defaultWallDetails
    /\ openingLayouts = <<>>
    /\ GenIdle
    /\ ProjIdle

NextOpt == OptimizeCutsPlace \/ OptimizeCutsReturn

SpecOpt == InitOpt /\ [][NextOpt]_vars

----------------------------------------------------------------------------
(* The two paths over one wall: generateWallMembers and calculateWallCuts *)

WallLengths == {In(96), Eighths(772), In(192)}
WallHeights == {Eighths(777), In(120)}
StudSpacings == {In(16), In(24)}

WallOpenings ==
    {NewOpening("window"),
     [NewOpening("window") EXCEPT !.centerOffset = Some(In(60)),
                                  !.headerTopOffset = Some(In(6))],
     [NewOpening("door") EXCEPT !.quantity = MaxQuantity, !.width = In(30)],
     [NewOpening("door") EXCEPT !.headerSize = "2x12", !.headerPly = 3,
                                !.jackStudsPerSide = 2]}

InitWall ==
    /\ \E l \in WallLengths, h \in WallHeights, sp \in StudSpacings :
         \E oc \in 1..2, ss \in 1..2, es \in 1..2 :
           \E br \in 0..1, ops \in SeqsUpTo(WallOpenings, MaxOpenings) :
              details = [defaultWallDetails EXCEPT
                           !.wallLength = l, !.wallHeight = h,
                           !.studSpacing = sp, !.studsOnCenter = oc,
                           !.startStuds = ss, !.endStuds = es,
                           !.blockingRows = br,
                           !.openings = WithIds(ops)]
    /\ openingLayouts = <<>>
    /\ pc = "wall"
    /\ OptIdle
    /\ GenIdle
    /\ ProjIdle

\* the wall the viewer draws between two draws of the wall under test
otherWallDetails ==
    [defaultWallDetails EXCEPT !.openings = WithIds(<<NewOpening("window")>>)]

\* a caller (viewer, exporter) calls generateWallMembers(wall.details), at
\* most limit calls in all
GenerateWallMembers(limit) ==
    /\ Len(callLog) < limit
    /\ \E r \in {generateWallMembers(details,
                                      FreshCounters(memberIdCounters))} :
          /\ members' = r.members
          /\ memberIdCounters' = r.counters
          /\ firstMembers' = IF firstMembers = <<>> THEN r.members
                             ELSE firstMembers
    /\ callLog' = Append(callLog, "wall")
    /\ UNCHANGED <<details, openingLayouts, otherMembers, raw, cutHistory,
                   pc, optVars>>
    /\ UNCHANGED projVars

GenerateOtherWallMembers(limit) ==
    /\ Len(callLog) < limit
    /\ \E r \in {generateWallMembers(otherWallDetails,
                                      FreshCounters(memberIdCounters))} :
          /\ otherMembers' = r.members
          /\ memberIdCounters' = r.counters
    /\ callLog' = Append(callLog, "other")
    /\ UNCHANGED <<details, openingLayouts, members, firstMembers, raw,
                   cutHistory, pc, optVars>>
    /\ UNCHANGED projVars

\* calculateSingleWallMaterials / aggregateRawCuts call calculateWallCuts
CalculateWallCuts ==
    /\ raw = <<>>
    /\ raw' = <<calculateWallCuts(details)>>
    /\ cutHistory' = <<[studXs |-> countedStudPositions(details),
                        studLengths |-> allStudLengths(details)]>>
    /\ UNCHANGED <<details, openingLayouts, members, otherMembers,
                   memberIdCounters, firstMembers, callLog, pc, optVars>>
    /\ UNCHANGED projVars

NextWall == GenerateWallMembers(1) \/ CalculateWallCuts

SpecWall == InitWall /\ [][NextWall]_vars

\* repeated draws of one wall, with draws of another wall in between
InitRepeat ==
    /\ \E l \in WallLengths, sh \in BOOLEAN, br \in 0..1 :
         \E ops \in SeqsUpTo(WallOpenings, MaxOpenings) :
            details = [defaultWallDetails EXCEPT
                         !.wallLength = l, !.sheathing = sh,
                         !.blockingRows = br, !.openings = WithIds(ops)]
    /\ openingLayouts = <<>>
    /\ pc = "wall"
    /\ OptIdle
    /\ GenIdle
    /\ ProjIdle

NextRepeat ==
    GenerateWallMembers(MaxCalls) \/ GenerateOtherWallMembers(MaxCalls)

SpecRepeat == InitRepeat /\ [][NextRepeat]_vars

----------------------------------------------------------------------------
(* The cut list of one wall: calculateWallCuts, then processRawCuts *)

\* 97.125, 97.13, 109.125, 120 and 204.5 inches
CutWallHeights ==
    {Eighths(777), Hundredths(9713), Eighths(873), In(120), Eighths(1636)}
CutWallLengths == {In(96), In(240)}
StudSizes == {"2x4", "2x6"}

CutOpenings ==
    {NewOpening("window"),
     [NewOpening("window") EXCEPT !.width = In(200), !.headerSize = "2x10"],
     [NewOpening("door") EXCEPT !.headerSize = "2x12", !.headerPly = 3,
                                !.jackStudsPerSide = 2]}

InitCuts ==
    /\ \E l \in CutWallLengths, h \in CutWallHeights, size \in StudSizes :
         \E br \in 0..1, sh \in BOOLEAN :
           \E ops \in SeqsUpTo(CutOpenings, MaxOpenings) :
              details = [defaultWallDetails EXCEPT
                           !.wallLength = l, !.wallHeight = h,
                           !.studSize = size, !.blockingRows = br,
                           !.sheathing = sh, !.openings = WithIds(ops)]
    /\ openingLayouts = <<>>
    /\ pc = "wall"
    /\ OptIdle
    /\ GenIdle
    /\ ProjIdle

\* calculateSingleWallMaterials, line 302
ProcessRawCuts ==
    /\ raw # <<>>
    /\ materialList = <<>>
    /\ materialList' = <<processRawCuts(raw[1])>>
    /\ optimizeLog' = optimizeCallsOf(raw[1])
    /\ UNCHANGED <<wallVars, pc, optVars, walls, floors, materials,
                   projectLog>>

NextCuts == CalculateWallCuts \/ ProcessRawCuts

SpecCuts == InitCuts /\ [][NextCuts]_vars

----------------------------------------------------------------------------
(* The project: calculateProjectMaterials over walls and floors, and the
   viewer's calls on the first wall *)

\* the default wall with a window; a long 2x6 wall with blocking and
\* sheathing; a 10' wall with two windows placed by their centerOffset, the
\* right one listed first
ProjectDetails ==
    {[defaultWallDetails EXCEPT !.openings = WithIds(<<NewOpening("window")>>)],
     [defaultWallDetails EXCEPT !.wallLength = In(240),
                                !.wallHeight = Eighths(873),
                                !.studSize = "2x6", !.blockingRows = 1,
                                !.sheathing = TRUE],
     [defaultWallDetails EXCEPT
        !.wallHeight = In(120),
        !.openings = WithIds(
            <<[NewOpening("window") EXCEPT !.centerOffset = Some(In(140))],
              [NewOpening("window") EXCEPT !.centerOffset = Some(In(40))]>>)]}

\* handleAddFloor, and the initial 'floor-1'
FloorNo(i) == [id |-> "floor-" \o ToString(i), name |-> "Floor " \o ToString(i)]

\* wall ids are unique (generateId); a wall names a floor of the project or
\* has no floorId
ProjectWalls(floorCount) ==
    {[id |-> "", name |-> "", floorId |-> f, details |-> d] :
        f \in {Undefined} \cup {Some(FloorNo(i).id) : i \in 1..floorCount},
        d \in ProjectDetails}

WithWallIds(wallList) ==
    [i \in 1..Len(wallList) |->
        [wallList[i] EXCEPT !.id = "wall-" \o ToString(i),
                            !.name = "Wall " \o ToString(i)]]

InitProject ==
    /\ \E floorCount \in 1..MaxFloors :
         /\ floors = [i \in 1..floorCount |-> FloorNo(i)]
         /\ \E wallList \in SeqsUpTo(ProjectWalls(floorCount), MaxWalls) :
               /\ wallList # <<>>
               /\ walls = WithWallIds(wallList)
    /\ details = walls[1].details
    /\ openingLayouts = <<>>
    /\ pc = "input"
    /\ OptIdle
    /\ GenIdle
    /\ materialList = <<>>
    /\ optimizeLog = <<>>
    /\ materials = <<>>
    /\ projectLog = <<>>

\* the list handed to sortMaterialList at lines 370 and 384
UnmergedBulk(agg) ==
    consolidatedListOf(agg) \o processRawCuts(globalRawCutsOf(agg))

WallIds(wallList) == [k \in DOMAIN wallList |-> wallList[k].id]

\* what the call did: the walls taken for each floor (line 360) and the
\* lists handed to sortMaterialList (lines 302, 370, 384)
ProjectLogOf(wallList, floorList) ==
    [floorWalls |->
        [i \in DOMAIN floorList |->
            [id |-> floorList[i].id,
             wallIds |-> WallIds(floorWallsOf(wallList, floorList,
                                              floorList[i]))]],
     list |-> UnmergedBulk(aggregateRawCuts(wallList)),
     byWall |->
        [k \in DOMAIN wallList |->
            [id |-> wallList[k].id,
             materials |->
                 processRawCuts(calculateWallCuts(wallList[k].details))]],
     byFloor |->
        [i \in DOMAIN floorList |->
            [id |-> floorList[i].id,
             materials |->
                 UnmergedBulk(aggregateRawCuts(
                     floorWallsOf(wallList, floorList, floorList[i])))]]]

\* handleCalculateMaterials, on a project that has walls:
\* calculateProjectMaterials(walls, floors)
CalculateProjectMaterials ==
    /\ materials = <<>>
    /\ materials' = <<calculateProjectMaterials(walls, floors)>>
    /\ projectLog' = <<ProjectLogOf(walls, floors)>>
    /\ UNCHANGED <<wallVars, pc, optVars, materialList, optimizeLog, walls,
                   floors>>

NextProject ==
    CalculateProjectMaterials \/ ResolveOpenings \/ GenerateWallMembers(1)

SpecProject == InitProject /\ [][NextProject]_vars

----------------------------------------------------------------------------
(* Walls without openings: the common studs of generateWallMembers *)

\* 3, 48, 96.5 and 97 inches
StudWallLengths == {In(3), In(48), Eighths(772), In(97)}
AllStudSpacings == {In(8), In(12), In(16), In(24)}

InitStuds ==
    /\ \E l \in StudWallLengths, sp \in AllStudSpacings, oc \in 1..4 :
         \E ss \in 1..2, es \in 1..2, br \in 0..1 :
           \E dtp \in BOOLEAN, pt \in BOOLEAN :
              details = [defaultWallDetails EXCEPT
                           !.wallLength = l, !.studSpacing = sp,
                           !.studsOnCenter = oc, !.startStuds = ss,
                           !.endStuds = es, !.blockingRows = br,
                           !.doubleTopPlate = dtp,
                           !.pressureTreatedBottomPlate = pt]
    /\ openingLayouts = <<>>
    /\ pc = "wall"
    /\ OptIdle
    /\ GenIdle
    /\ ProjIdle

NextStuds == GenerateWallMembers(1)

SpecStuds == InitStuds /\ [][NextStuds]_vars

----------------------------------------------------------------------------
(* Walls with openings: the frames of generateWallMembers, and the studs both
   paths keep around them *)

FrameWallLengths == {In(192), In(240)}

\* the window the editor adds; a narrow window with doubled kings and jacks
\* and a 3-ply header, in several instances; the door the editor adds; a
\* window centred 85" from the wall's start, whose frame starts at 64"
FrameOpenings ==
    {NewOpening("window"),
     [NewOpening("window") EXCEPT !.quantity = MaxQuantity, !.width = In(24),
                                  !.kingStudsPerSide = 2,
                                  !.jackStudsPerSide = 2, !.headerPly = 3],
     NewOpening("door"),
     [NewOpening("window") EXCEPT !.centerOffset = Some(In(85))]}

InitFrames ==
    /\ \E l \in FrameWallLengths, h \in WallHeights, sp \in StudSpacings :
         \E ops \in SeqsUpTo(FrameOpenings, MaxOpenings) :
            details = [defaultWallDetails EXCEPT
                         !.wallLength = l, !.wallHeight = h,
                         !.studSpacing = sp, !.openings = WithIds(ops)]
    /\ openingLayouts = <<>>
    /\ pc = "wall"
    /\ OptIdle
    /\ GenIdle
    /\ ProjIdle

NextFrames == GenerateWallMembers(1) \/ CalculateWallCuts

SpecFrames == InitFrames /\ [][NextFrames]_vars

----------------------------------------------------------------------------
(* Properties of calculateOpeningLayouts, read off the resolved wall *)

Resolved == pc = "resolved"

\* the positions, in details.openings, of the openings placed by their
\* centerOffset and of those that flow automatically
ManualIdx ==
    {i \in DOMAIN details.openings :
        LET o == details.openings[i]
        IN o.quantity = 1 /\ o.width > 0 /\ o.centerOffset # <<>>}

AutoIdx ==
    {i \in DOMAIN details.openings :
        LET o == details.openings[i]
        IN o.quantity > 0 /\ o.width > 0 /\ i \notin ManualIdx}

AutoCount ==
    SeqSum([i \in DOMAIN details.openings |->
              IF i \in AutoIdx THEN details.openings[i].quantity ELSE 0])

EntriesOf(i) ==
    {k \in DOMAIN openingLayouts : openingLayouts[k].opening.id = i}

\* width + 2 * (kings + jacks) * 1.5
NominalFrameWidth(op) ==
    op.width + 3 * (op.kingStudsPerSide + op.jackStudsPerSide) * Unit

\* combined frame width of the auto-flow instances of the result
TotalAutoWidth ==
    SeqSum([k \in 1..AutoCount |->
              NominalFrameWidth(openingLayouts[k].opening)])

\* C3: when the auto-flow frames reach or exceed the wall length the spacing
\* is 0: the first auto opening starts at x = 0, consecutive auto openings
\* touch edge to edge, and no auto opening has a negative xStart or overlaps
\* its neighbour.
C3_OverSubscribedSpacingIsZero ==
    (Resolved /\ AutoCount > 0 /\ TotalAutoWidth >= details.wallLength) =>
        /\ openingLayouts[1].xStart = 0
        /\ \A k \in 1..AutoCount : openingLayouts[k].xStart >= 0
        /\ \A k \in 1..(AutoCount - 1) :
              openingLayouts[k + 1].xStart = openingLayouts[k].xEnd

\* C4 as stated: every opening with quantity = 1 and a centerOffset set has
\* exactly one placement, with xStart = centerOffset - frameWidth/2,
\* xEnd = xStart + frameWidth and center = centerOffset.
C4_EveryOffsetOpeningPlaced ==
    Resolved =>
        \A i \in DOMAIN details.openings :
            LET o == details.openings[i]
            IN (o.quantity = 1 /\ o.centerOffset # <<>>) =>
                 /\ Cardinality(EntriesOf(i)) = 1
                 /\ \A k \in EntriesOf(i) :
                      LET p == openingLayouts[k]
                      IN /\ 2 * p.xStart =
                              2 * o.centerOffset[1] - NominalFrameWidth(o)
                         /\ p.xEnd = p.xStart + NominalFrameWidth(o)
                         /\ p.center = o.centerOffset[1]

\* C4 amended: every opening of positive width with quantity = 1 and a
\* centerOffset set has exactly one placement, with
\* xStart = centerOffset - frameWidth/2, xEnd = xStart + frameWidth and
\* center = centerOffset, whatever the wall length and the other openings.
C4_ActiveOffsetOpeningPlaced ==
    Resolved =>
        \A i \in ManualIdx :
            LET o == details.openings[i]
            IN /\ Cardinality(EntriesOf(i)) = 1
               /\ \A k \in EntriesOf(i) :
                    LET p == openingLayouts[k]
                    IN /\ 2 * p.xStart =
                            2 * o.centerOffset[1] - NominalFrameWidth(o)
                       /\ p.xEnd = p.xStart + NominalFrameWidth(o)
                       /\ p.center = o.centerOffset[1]

\* a manual opening resolved next to another active opening
C4_Witness ==
    /\ Resolved
    /\ ManualIdx # {}
    /\ Len(openingLayouts) >= 2

\* C5: on a wall that is not over-subscribed every auto-flow instance is
\* exactly its frame width wide, the first starts at spacing, each next one
\* starts spacing after the previous xEnd and the last ends spacing before
\* the wall end, where spacing * (autoCount + 1) = wallLength - totalAutoWidth.
C5_AutoFlowGapsEqual ==
    (Resolved /\ AutoCount > 0 /\ TotalAutoWidth <= details.wallLength) =>
        LET gap == openingLayouts[1].xStart
        IN /\ gap * (AutoCount + 1) = details.wallLength - TotalAutoWidth
           /\ \A k \in 1..AutoCount :
                 openingLayouts[k].xEnd - openingLayouts[k].xStart =
                     NominalFrameWidth(openingLayouts[k].opening)
           /\ \A k \in 1..(AutoCount - 1) :
                 openingLayouts[k + 1].xStart - openingLayouts[k].xEnd = gap
           /\ details.wallLength - openingLayouts[AutoCount].xEnd = gap

\* three auto-flow instances of two different widths with room to spare
C5_Witness ==
    /\ Resolved
    /\ AutoCount >= 3
    /\ TotalAutoWidth < details.wallLength
    /\ \E k \in 1..AutoCount :
          openingLayouts[k].frameWidth # openingLayouts[1].frameWidth

\* C6: an opening with quantity > 1 is never placed manually, even with a
\* centerOffset: it yields exactly quantity entries, all in the auto-flow run
\* and at auto-flow positions; the result has one entry per manual opening
\* plus the sum of the quantities of the other active openings.
C6_QuantityAboveOneFlows ==
    Resolved =>
        /\ Len(openingLayouts) = Cardinality(ManualIdx) + AutoCount
        /\ \A i \in DOMAIN details.openings :
              LET o == details.openings[i]
              IN (o.quantity > 1 /\ o.width > 0) =>
                   /\ Cardinality(EntriesOf(i)) = o.quantity
                   /\ \A k \in EntriesOf(i) :
                        /\ k <= AutoCount
                        /\ (AutoCount + 1) *
                             (openingLayouts[k].xStart -
                                (IF k = 1 THEN 0
                                 ELSE openingLayouts[k - 1].xEnd))
                           = details.wallLength - TotalAutoWidth

\* an opening with quantity > 1 that carries a centerOffset, resolved next
\* to a manual opening
C6_Witness ==
    /\ Resolved
    /\ ManualIdx # {}
    /\ \E i \in DOMAIN details.openings :
          /\ details.openings[i].quantity > 1
          /\ details.openings[i].width > 0
          /\ details.openings[i].centerOffset # <<>>

\* C7: the result lists the auto-flow instances first, in the declaration
\* order of their openings, then the manual instances by ascending xStart;
\* openings with quantity <= 0 or width <= 0 contribute nothing, and with no
\* active opening the result is empty.
C7_AutoFirstThenManualSorted ==
    Resolved =>
        /\ Len(openingLayouts) = AutoCount + Cardinality(ManualIdx)
        /\ \A k \in DOMAIN openingLayouts :
              /\ openingLayouts[k].opening.id \in DOMAIN details.openings
              /\ openingLayouts[k].opening =
                    details.openings[openingLayouts[k].opening.id]
              /\ k <= AutoCount => openingLayouts[k].opening.id \in AutoIdx
              /\ k > AutoCount => openingLayouts[k].opening.id \in ManualIdx
        /\ \A k, l \in 1..AutoCount :
              k < l => openingLayouts[k].opening.id
                          <= openingLayouts[l].opening.id
        /\ \A i \in AutoIdx :
              Cardinality(EntriesOf(i)) = details.openings[i].quantity
        /\ \A i \in ManualIdx : Cardinality(EntriesOf(i)) = 1
        /\ \A k \in (AutoCount + 1)..(Len(openingLayouts) - 1) :
              openingLayouts[k].xStart <= openingLayouts[k + 1].xStart

\* a manual opening declared before an auto-flow one comes after it
C7_Witness ==
    /\ Resolved
    /\ Len(details.openings) = 2
    /\ 1 \in ManualIdx
    /\ 2 \in AutoIdx
    /\ openingLayouts[1].opening.id = 2
    /\ openingLayouts[Len(openingLayouts)].opening.id = 1

----------------------------------------------------------------------------
(* Properties of optimizeCuts *)

MinOf(S) == CHOOSE x \in S : \A y \in S : x <= y

Occurrences(s, v) == Cardinality({i \in DOMAIN s : s[i] = v})

\* one iteration of the placing loop, as the claim describes it
FirstFitStep ==
    LET cut == sortedCuts[cutIndex + 1]
        fitting == {b \in DOMAIN stockBins : cut <= stockBins[b].remaining}
        longEnough == {l \in Range(stockLengths) : cut <= l}
    IN (pc = "placing" /\ cutIndex' = cutIndex + 1) =>
         IF fitting # {}
         THEN stockBins' =
                 [stockBins EXCEPT ![MinOf(fitting)].remaining = @ - cut]
         ELSE longEnough # {} =>
                 stockBins' =
                     Append(stockBins,
                            [length |-> MinOf(longEnough),
                             remaining |-> MinOf(longEnough) - cut])

\* C9: optimizeCuts processes the cuts in descending length order, places each
\* into the earliest-opened bin with enough remaining capacity, and otherwise
\* opens a bin of the smallest stock length that accommodates the cut; cuts
\* [96, 96, 48] against stock [192] yield exactly {length: 192, count: 2}.
C9_FirstFitDescending ==
    /\ [](/\ Len(sortedCuts) = Len(cuts)
          /\ \A v \in Range(cuts) :
                Occurrences(sortedCuts, v) = Occurrences(cuts, v)
          /\ \A i, j \in DOMAIN sortedCuts :
                i < j => sortedCuts[i] >= sortedCuts[j])
    /\ [][FirstFitStep]_vars
    /\ []((/\ pc = "optimized"
           /\ cuts = <<In(96), In(96), In(48)>>
           /\ stockLengths = <<In(192)>>)
          => optimized = <<[length |-> In(192), count |-> 2]>>)

\* a run that reused an open bin, opened bins of two different stock lengths
\* and returned
C9_Witness ==
    /\ pc = "optimized"
    /\ \E b \in DOMAIN binCuts : Len(binCuts[b]) >= 2
    /\ \E a, b \in DOMAIN stockBins : stockBins[a].length # stockBins[b].length
    /\ cuts # sortedCuts

\* C10: every cut is assigned to some bin (a cut no stock length accommodates
\* gets a new bin of the largest stock length), so the bins returned account
\* for as many cuts as were passed in.
C10_EveryCutAssigned ==
    pc = "optimized" =>
        /\ SeqSum([b \in DOMAIN binCuts |-> Len(binCuts[b])]) = Len(cuts)
        /\ SeqSum([k \in DOMAIN optimized |-> optimized[k].count])
              = Len(stockBins)
        /\ \A i \in DOMAIN cuts :
              \E b \in DOMAIN binCuts : \E k \in DOMAIN binCuts[b] :
                 binCuts[b][k] = cuts[i]

----------------------------------------------------------------------------
(* Properties relating generateWallMembers and calculateWallCuts *)

BothPathsRan == members # <<>> /\ cutHistory # <<>>

MembersOfType(types) ==
    SelectSeq(members, LAMBDA m : m.type \in types)

GeneratedStudXs ==
    {MembersOfType({"stud"})[k].x : k \in DOMAIN MembersOfType({"stud"})}

SameMultiset(a, b) ==
    /\ Len(a) = Len(b)
    /\ \A i \in DOMAIN a : Occurrences(a, a[i]) = Occurrences(b, a[i])

\* C1: for every wall, whole-inch long or not, the common studs counted by
\* calculateWallCuts stand at the positions of the 'stud' members that
\* generateWallMembers emits for the wall, and are as many.
C1_CutStudsAreGeneratedStuds ==
    BothPathsRan =>
        /\ cutHistory[1].studXs = GeneratedStudXs
        /\ Cardinality(cutHistory[1].studXs) = Len(MembersOfType({"stud"}))

\* C2: for every wall with openings, the stud-material cut lengths of
\* calculateWallCuts are, as a multiset, the heights of the stud, king-jack
\* and cripple members that generateWallMembers emits.
C2_CutLengthsAreMemberHeights ==
    (BothPathsRan /\ details.openings # <<>>) =>
        LET drawn == MembersOfType({"stud", "king-jack", "cripple"})
        IN SameMultiset(cutHistory[1].studLengths,
                        [k \in DOMAIN drawn |-> drawn[k].h])

\* C8: a repeated call of generateWallMembers on the same wall, whatever
\* calls on another wall came in between, returns what the first call
\* returned: the same members in the same order with the same position,
\* extent, name and id.
C8_RepeatedCallSameMembers ==
    members # <<>> => members = firstMembers

\* the wall was drawn, then the other wall, then the wall again, and both
\* walls have members that take their id from the same name counter
C8_Witness ==
    /\ callLog = <<"wall", "other", "wall">>
    /\ members = firstMembers
    /\ \E i \in DOMAIN members, j \in DOMAIN otherMembers :
          /\ members[i].type = "stud"
          /\ otherMembers[j].name = members[i].name

----------------------------------------------------------------------------
(* Properties of processRawCuts, read off the calls it made *)

Processed == materialList # <<>>

\* the cuts of every optimizeCuts call, and the raw cuts they were made for
OptimizedCuts == Flatten([k \in DOMAIN optimizeLog |-> optimizeLog[k].cuts])
RawLengths == Flatten([k \in DOMAIN optimizeLog |-> optimizeLog[k].from])

\* the pieces of the claim for one cut: 192" as long as more than 192" is
\* left, then the positive remainder
RECURSIVE SplitAt192(_)
SplitAt192(length) ==
    IF length > In(192) THEN <<In(192)>> \o SplitAt192(length - In(192))
    ELSE <<length>>

\* C11: every cut longer than the largest stock length (192") is split,
\* before optimization, into pieces of 192" plus one positive remainder that
\* sum to the cut, in every material category (plates, headers, studs,
\* blocking); no cut handed to optimizeCuts exceeds 192".
C11_LongCutsPreSplit ==
    Processed =>
        \A k \in DOMAIN optimizeLog :
            /\ \A i \in DOMAIN optimizeLog[k].cuts :
                  optimizeLog[k].cuts[i] <= In(192)
            /\ Len(optimizeLog[k].cuts) =
                  Len(Flatten([i \in DOMAIN optimizeLog[k].from |->
                                  SplitAt192(optimizeLog[k].from[i])]))

\* the cuts of the optimizeCuts calls made for studs
StudCallCuts ==
    Flatten([k \in DOMAIN optimizeLog |->
               IF optimizeLog[k].desc \in {size \o " Stud" : size \in StudSizes}
               THEN optimizeLog[k].cuts
               ELSE <<>>])

Within(len, target, tolerance) ==
    len - target < tolerance /\ target - len < tolerance

IsPrecut92(len) == Within(len, Eighths(741), Hundredths(1))
IsPrecut104(len) == Within(len, Eighths(837), Hundredths(1))

\* C12: every stud-material length of a wall is classified exactly once:
\* within 0.01" of 92.625" it counts as a 92 5/8" pre-cut, within 0.01" of
\* 104.625" as a 104 5/8" pre-cut, otherwise it becomes a custom stud cut; the
\* three tallies add up to the number of stud pieces, and no pre-cut length is
\* passed to optimizeCuts.
C12_StudLengthsClassifiedOnce ==
    raw # <<>> =>
        LET lengths == cutHistory[1].studLengths
            custom == raw[1].studCuts
        IN /\ raw[1].precut92.count =
                 Cardinality({k \in DOMAIN lengths : IsPrecut92(lengths[k])})
           /\ raw[1].precut104.count =
                 Cardinality({k \in DOMAIN lengths : IsPrecut104(lengths[k])})
           /\ [k \in DOMAIN custom |-> custom[k].length] =
                 SelectSeq(lengths, LAMBDA len : ~IsPrecut92(len)
                                                  /\ ~IsPrecut104(len))
           /\ raw[1].precut92.count + raw[1].precut104.count + Len(custom)
                 = Len(lengths)
           /\ Processed =>
                 /\ Len(StudCallCuts) = Len(custom)
                 /\ \A k \in DOMAIN StudCallCuts :
                       ~IsPrecut92(StudCallCuts[k])
                       /\ ~IsPrecut104(StudCallCuts[k])

\* a processed wall with pre-cut studs, one of them not exactly 92.625" long,
\* and custom stud cuts
C12_Witness ==
    /\ Processed
    /\ raw[1].precut92.count > 0
    /\ raw[1].studCuts # <<>>
    /\ \E k \in DOMAIN cutHistory[1].studLengths :
          /\ IsPrecut92(cutHistory[1].studLengths[k])
          /\ cutHistory[1].studLengths[k] # Eighths(741)

----------------------------------------------------------------------------
(* Properties of calculateProjectMaterials, read off its result *)

Calculated == materials # <<>>

\* a returned list with the list that was merged into it
Merged(returned, unmerged) == [returned |-> returned, unmerged |-> unmerged]

\* every list of the result, paired with its list before merging; a floor
\* without walls has no list
ReturnedLists ==
    {Merged(materials[1].list, projectLog[1].list)}
    \cup {Merged(materials[1].byWall[kj[1]].materials,
                 projectLog[1].byWall[kj[2]].materials) :
            kj \in {p \in (DOMAIN materials[1].byWall)
                             \X (DOMAIN projectLog[1].byWall) :
                      projectLog[1].byWall[p[2]].id
                         = materials[1].byWall[p[1]].id}}
    \cup {Merged(materials[1].byFloor[kj[1]].materials,
                 projectLog[1].byFloor[kj[2]].materials) :
            kj \in {p \in (DOMAIN materials[1].byFloor)
                             \X (DOMAIN projectLog[1].byFloor) :
                      projectLog[1].byFloor[p[2]].id
                         = materials[1].byFloor[p[1]].id}}

\* the description an item is listed under: lumber gets its grade
Graded(description) ==
    IF Includes(description, "Plywood") \/ Includes(description, "Sheet")
          \/ Includes(description, "Pre-cut")
    THEN description
    ELSE description \o " No. 2 or Better"

\* a is listed as (description, length); the lengths of two items of one
\* description are both numbers or both texts
SamePair(description, length, a) ==
    description = a.description /\ length = a.length

QuantityBefore(unmerged, item) ==
    SeqSum([k \in DOMAIN unmerged |->
              IF SamePair(Graded(unmerged[k].description),
                          unmerged[k].length, item)
              THEN unmerged[k].quantity
              ELSE 0])

\* C13: in the project list, in each byWall list and in each byFloor list no
\* two items share their (description, length), and the quantity of each item
\* is the sum of the quantities of the items with that (description, length)
\* before merging.
C13_ListsMergedByDescriptionAndLength ==
    Calculated =>
        \A m \in ReturnedLists :
            /\ \A i, j \in DOMAIN m.returned :
                  i # j => ~SamePair(m.returned[i].description,
                                     m.returned[i].length, m.returned[j])
            /\ \A i \in DOMAIN m.returned :
                  m.returned[i].quantity
                     = QuantityBefore(m.unmerged, m.returned[i])
            /\ \A k \in DOMAIN m.unmerged :
                  \E i \in DOMAIN m.returned :
                     SamePair(Graded(m.unmerged[k].description),
                              m.unmerged[k].length, m.returned[i])

\* two walls on two floors, and a list with two items of one description
\* and different lengths
C13_Witness ==
    /\ Calculated
    /\ Len(walls) = 2
    /\ Len(materials[1].byFloor) = 2
    /\ \E m \in ReturnedLists : \E i, j \in DOMAIN m.returned :
          /\ m.returned[i].description = m.returned[j].description
          /\ m.returned[i].length # m.returned[j].length

\* the floor a wall belongs to: the one it names, the first floor if it
\* names none
FloorIdOf(wall) ==
    IF wall.floorId = Undefined THEN floors[1].id ELSE wall.floorId[1]

\* C18: the result has one byWall entry per input wall, keyed by the wall's
\* id, and one byFloor entry, keyed by floor id, for exactly the floors that
\* have a wall; a wall is counted on the floor its floorId names, a wall
\* without floorId on the first floor, and no wall on two floors.
C18_EntriesPerWallAndFloor ==
    Calculated =>
        LET byWall == materials[1].byWall
            byFloor == materials[1].byFloor
            counted == projectLog[1].floorWalls
        IN /\ Len(byWall) = Len(walls)
           /\ \A i \in DOMAIN walls :
                 Cardinality({k \in DOMAIN byWall :
                                byWall[k].id = walls[i].id
                                /\ byWall[k].wallName = walls[i].name}) = 1
           /\ \A f \in DOMAIN floors :
                 Cardinality({k \in DOMAIN byFloor :
                                byFloor[k].id = floors[f].id})
                    = IF \E i \in DOMAIN walls :
                            FloorIdOf(walls[i]) = floors[f].id
                      THEN 1 ELSE 0
           /\ \A k \in DOMAIN byFloor :
                 \E f \in DOMAIN floors : floors[f].id = byFloor[k].id
           /\ \A i \in DOMAIN walls : \A c \in DOMAIN counted :
                 (walls[i].id \in Range(counted[c].wallIds))
                    <=> (counted[c].id = FloorIdOf(walls[i]))

\* a wall without floorId and a wall of the second floor, each counted on
\* its floor
C18_Witness ==
    /\ Calculated
    /\ Len(floors) = 2
    /\ Len(materials[1].byFloor) = 2
    /\ \E i, j \in DOMAIN walls :
          /\ walls[i].floorId = Undefined
          /\ walls[j].floorId = Some(floors[2].id)
          /\ walls[i].id \in Range(projectLog[1].floorWalls[1].wallIds)
          /\ walls[j].id \in Range(projectLog[1].floorWalls[2].wallIds)

C19_StockSetsByCategory ==
    Processed =>
        /\ \A k \in DOMAIN optimizeLog :
              LET call == optimizeLog[k]
              IN /\ (Includes(call.desc, "Plate")
                        \/ Includes(call.desc, "Header"))
                       => Range(call.stock) = {In(192)}
                 /\ (Includes(call.desc, " Stud")
                        \/ Includes(call.desc, " Blocking"))
                       => Range(call.stock)
                             = {In(96), In(120), In(144), In(192)}
        /\ \A i \in DOMAIN materialList[1] :
              LET item == materialList[1][i]
              IN (Includes(item.description, "Plate")
                     \/ Includes(item.description, "Header"))
                    => item.length = In(192)

----------------------------------------------------------------------------
(* Properties of the members generateWallMembers returns *)

Generated == callLog # <<>>

StudMembers == SelectSeq(members, LAMBDA m : m.type = "stud")

\* the left edges of the start studs, of the end studs and of the studs of
\* the on-center blocks, which are centred on the marks i * studSpacing and
\* kept if their left edge lies between the last start stud and the first
\* end stud
StartStudXs == {i * STUD_THICKNESS : i \in 0..(details.startStuds - 1)}
EndStudXs ==
    {details.wallLength - (i + 1) * STUD_THICKNESS :
        i \in 0..(details.endStuds - 1)}
BlockLeft(i) ==
    i * details.studSpacing - (details.studsOnCenter * STUD_THICKNESS) \div 2
OnCenterStudXs ==
    {BlockLeft(i) + j * STUD_THICKNESS :
        i \in {k \in 1..(details.wallLength \div details.studSpacing + 1) :
                 /\ k * details.studSpacing < details.wallLength
                 /\ BlockLeft(k) > (details.startStuds - 1) * STUD_THICKNESS
                 /\ BlockLeft(k) < details.wallLength
                                      - details.endStuds * STUD_THICKNESS},
        j \in 0..(details.studsOnCenter - 1)}

NearestHundredth(x) ==
    CHOOSE r \in {(x \div Hundredths(1)) * Hundredths(1),
                  (x \div Hundredths(1) + 1) * Hundredths(1)} :
        2 * (x - r) < Hundredths(1) /\ 2 * (r - x) <= Hundredths(1)

\* C14: a wall with no openings, no blocking rows and no sheathing gets only
\* plates and studs, and as many studs as there are distinct positions,
\* rounded to the hundredth, among the start, end and on-center studs.
C14_PlainWallStudCount ==
    (Generated /\ details.openings = <<>> /\ details.blockingRows = 0
        /\ ~details.sheathing) =>
        /\ \A k \in DOMAIN members :
              members[k].type \in {"plate", "pt-plate", "stud"}
        /\ Len(StudMembers) =
              Cardinality({NearestHundredth(x) :
                             x \in StartStudXs \cup EndStudXs
                                      \cup OnCenterStudXs})

\* a plain wall drawn with a double start stud and on-center blocks of
\* several studs
C14_Witness ==
    /\ Generated
    /\ details.openings = <<>> /\ details.blockingRows = 0
    /\ ~details.sheathing
    /\ details.startStuds = 2
    /\ details.studsOnCenter >= 2
    /\ OnCenterStudXs # {}
    /\ Len(StudMembers) = 2 + details.endStuds + Cardinality(OnCenterStudXs)

\* C20: on-center studs are emitted only strictly between the start-stud
\* block and the end-stud block: any two studs are at least 1.5" apart and
\* every stud lies within [0, wallLength].
C20_StudsDoNotOverlap ==
    Generated =>
        /\ \A a, b \in DOMAIN StudMembers :
              a # b => Abs(StudMembers[a].x - StudMembers[b].x)
                          >= STUD_THICKNESS
        /\ \A a \in DOMAIN StudMembers :
              /\ StudMembers[a].x >= 0
              /\ StudMembers[a].x + StudMembers[a].w <= details.wallLength

\* the resolved openings of the wall, as generateWallMembers and (on the
\* rounded wall length) calculateWallCuts get them
LayoutsOfWall ==
    calculateOpeningLayouts(details.wallLength, details.openings)
LayoutsOfCuts ==
    calculateOpeningLayouts(RoundInches(details.wallLength), details.openings)

NamedLike(kind) == SelectSeq(members, LAMBDA m : Includes(m.name, kind))
OfType(type) == SelectSeq(members, LAMBDA m : m.type = type)

FullStudHeight ==
    details.wallHeight
       - (IF details.doubleTopPlate THEN 2 ELSE 1) * PLATE_THICKNESS
       - PLATE_THICKNESS

IsAutoWindow(opening) ==
    opening.type = "window"
    /\ ~(opening.quantity = 1 /\ opening.centerOffset # Undefined)

\* the left edges of the kings and of the jacks of a frame that starts at
\* xStart: kings outside, jacks inside, the opening between the jacks
KingXsOf(opening, xStart) ==
    {xStart + k * STUD_THICKNESS : k \in 0..(opening.kingStudsPerSide - 1)}
    \cup {xStart + (opening.kingStudsPerSide + 2 * opening.jackStudsPerSide
                       + k) * STUD_THICKNESS + opening.width :
            k \in 0..(opening.kingStudsPerSide - 1)}
JackXsOf(opening, xStart) ==
    {xStart + (opening.kingStudsPerSide + j) * STUD_THICKNESS :
        j \in 0..(opening.jackStudsPerSide - 1)}
    \cup {xStart + (opening.kingStudsPerSide + opening.jackStudsPerSide + j)
                      * STUD_THICKNESS + opening.width :
            j \in 0..(opening.jackStudsPerSide - 1)}

\* the tag of instance i (1-based) in the ids of its header plies and sill
InstanceTag(i) ==
    ToString(LayoutsOfWall[i].opening.id) \o "-" \o ToString(i - 1)

\* the wall of the scenario: 192" x 97.125", 2x4 at 16" O.C., one 36" x 48"
\* window with 1 king and 1 jack per side and a 2-ply header
ScenarioWall ==
    [defaultWallDetails EXCEPT !.openings = WithIds(<<NewOpening("window")>>)]

Quarters(n) == (n * Unit) \div 4

\* C15: every auto-flow window instance gets 2 * kingStudsPerSide kings of
\* full stud height, 2 * jackStudsPerSide jacks, one header of headerPly
\* plies and one sill; the scenario wall gets 1 bottom plate, 2 top plates,
\* 2 kings, 2 jacks, 1 header (2 plies), 1 sill and an on-center stud run
\* that skips the opening span.
C15_WindowFrameMembers ==
    Generated =>
        /\ Len(NamedLike(" King")) =
              SeqSum([i \in DOMAIN LayoutsOfWall |->
                        2 * LayoutsOfWall[i].opening.kingStudsPerSide])
        /\ Len(NamedLike(" Jack")) =
              SeqSum([i \in DOMAIN LayoutsOfWall |->
                        2 * LayoutsOfWall[i].opening.jackStudsPerSide])
        /\ \A i \in DOMAIN LayoutsOfWall :
              LET opening == LayoutsOfWall[i].opening
                  xStart == LayoutsOfWall[i].xStart
              IN IsAutoWindow(opening) =>
                    /\ \A x \in KingXsOf(opening, xStart) :
                          \E k \in DOMAIN members :
                             /\ Includes(members[k].name, " King")
                             /\ members[k].x = x
                             /\ members[k].h = FullStudHeight
                    /\ \A x \in JackXsOf(opening, xStart) :
                          \E k \in DOMAIN members :
                             /\ Includes(members[k].name, " Jack")
                             /\ members[k].x = x
                    /\ {members[k].id : k \in {n \in DOMAIN members :
                            members[n].type = "header"
                            /\ Includes(members[n].id,
                                        "header-" \o InstanceTag(i) \o "-")}}
                          = {"header-" \o InstanceTag(i) \o "-" \o ToString(p) :
                               p \in 0..(opening.headerPly - 1)}
                    /\ Cardinality({k \in DOMAIN members :
                            members[k].type = "sill"
                            /\ members[k].id = "sill-" \o InstanceTag(i)}) = 1
        /\ Len(OfType("header")) =
              SeqSum([i \in DOMAIN LayoutsOfWall |->
                        LayoutsOfWall[i].opening.headerPly])
        /\ Len(OfType("sill")) =
              Cardinality({i \in DOMAIN LayoutsOfWall :
                             LayoutsOfWall[i].opening.type = "window"})
        /\ details = ScenarioWall =>
              /\ Len(SelectSeq(members, LAMBDA m :
                        m.type = "plate"
                        /\ m.y = details.wallHeight - PLATE_THICKNESS)) = 1
              /\ Len(SelectSeq(members, LAMBDA m :
                        m.type = "plate" /\ m.y < 2 * PLATE_THICKNESS)) = 2
              /\ Len(NamedLike(" King")) = 2
              /\ Len(NamedLike(" Jack")) = 2
              /\ Len(OfType("header")) = 2
              /\ Len(OfType("sill")) = 1
              /\ {StudMembers[k].x : k \in DOMAIN StudMembers} =
                    {0, In(192) - STUD_THICKNESS}
                    \cup {Quarters(4 * 16 * i - 3) :
                            i \in (1..11) \ {5, 6, 7}}

\* a wall drawn with several instances of the window of doubled kings and
\* jacks and a 3-ply header
C15_Witness ==
    /\ Generated
    /\ \E i, j \in DOMAIN LayoutsOfWall :
          /\ i # j
          /\ LayoutsOfWall[i].opening.id = LayoutsOfWall[j].opening.id
          /\ IsAutoWindow(LayoutsOfWall[i].opening)
          /\ LayoutsOfWall[i].opening.kingStudsPerSide = 2
          /\ LayoutsOfWall[i].opening.headerPly = 3
    /\ Len(OfType("sill")) >= 2

\* C16: no common stud has its center within the closed span [xStart, xEnd]
\* of a resolved opening, endpoints included, in the members drawn and in the
\* studs the cut list counts; no common stud overlaps a king stud.
C16_NoStudInOpeningSpan ==
    /\ Generated =>
          /\ \A s \in DOMAIN StudMembers : \A i \in DOMAIN LayoutsOfWall :
                ~(/\ LayoutsOfWall[i].xStart
                        <= StudMembers[s].x + STUD_THICKNESS \div 2
                   /\ StudMembers[s].x + STUD_THICKNESS \div 2
                        <= LayoutsOfWall[i].xEnd)
          /\ \A s \in DOMAIN StudMembers :
                \A k \in DOMAIN NamedLike(" King") :
                   Abs(StudMembers[s].x - NamedLike(" King")[k].x)
                      >= STUD_THICKNESS
    /\ cutHistory # <<>> =>
          \A x \in cutHistory[1].studXs : \A i \in DOMAIN LayoutsOfCuts :
             ~(/\ LayoutsOfCuts[i].xStart <= x + STUD_THICKNESS \div 2
               /\ x + STUD_THICKNESS \div 2 <= LayoutsOfCuts[i].xEnd)

----------------------------------------------------------------------------
(* Walls with blocking rows: the blocks of generateWallMembers *)

BlockWallLengths == {In(96), In(192)}

\* no opening, or the window the editor adds centred 48" from the left end
BlockOpenings ==
    {<<>>, <<[NewOpening("window") EXCEPT !.centerOffset = Some(In(48))]>>}

InitBlocks ==
    /\ \E l \in BlockWallLengths, sp \in StudSpacings, oc \in 1..4 :
         \E ss \in 1..2, es \in 1..2, br \in 1..2, ops \in BlockOpenings :
            details = [defaultWallDetails EXCEPT
                         !.wallLength = l, !.studSpacing = sp,
                         !.studsOnCenter = oc, !.startStuds = ss,
                         !.endStuds = es, !.blockingRows = br,
                         !.openings = WithIds(ops)]
    /\ openingLayouts = <<>>
    /\ pc = "wall"
    /\ OptIdle
    /\ GenIdle
    /\ ProjIdle

NextBlocks == GenerateWallMembers(1) \/ CalculateWallCuts

SpecBlocks == InitBlocks /\ [][NextBlocks]_vars

BlockMembers == OfType("blocking")

\* C21: every block spans a bay between two emitted studs (its left edge is
\* the right edge of a 'stud' member, its right edge the left edge of
\* another), is wider than 3", has its midpoint outside every opening span,
\* and each blocked bay holds exactly blockingRows blocks.
C21_BlocksSpanBaysOfEmittedStuds ==
    Generated =>
       \A b \in DOMAIN BlockMembers :
          /\ \E s \in DOMAIN StudMembers :
                StudMembers[s].x + StudMembers[s].w = BlockMembers[b].x
          /\ \E s \in DOMAIN StudMembers :
                StudMembers[s].x = BlockMembers[b].x + BlockMembers[b].w
          /\ BlockMembers[b].w > In(3)
          /\ ~InsideAnOpening(LayoutsOfWall,
                              BlockMembers[b].x + BlockMembers[b].w \div 2)
          /\ Cardinality({c \in DOMAIN BlockMembers :
                            BlockMembers[c].x = BlockMembers[b].x})
                = details.blockingRows

\* two blocks stand in consecutive blocked bays: no block starts between them
ConsecutiveBays(b, c) ==
    /\ BlockMembers[b].x < BlockMembers[c].x
    /\ ~\E e \in DOMAIN BlockMembers :
           /\ BlockMembers[b].x < BlockMembers[e].x
           /\ BlockMembers[e].x < BlockMembers[c].x

\* two blocks stand in the same row: the stagger alone separates their y
SameRow(b, c) == Abs(BlockMembers[b].y - BlockMembers[c].y) <= In(3)

\* C22: the blocks of two consecutive blocked bays in the same row never
\* have the same stagger offset, whatever the number of studs on center and
\* of start and end studs.
C22_StaggerAlternatesBayByBay ==
    Generated =>
       \A b, c \in DOMAIN BlockMembers :
          ConsecutiveBays(b, c) /\ SameRow(b, c)
             => BlockMembers[b].y # BlockMembers[c].y

----------------------------------------------------------------------------
(* Walls with one opening of any height: the frame of generateWallMembers *)

OpeningWallLengths == {In(96), In(192)}

\* doors of 80" (the editor's), 84" and 90"; the editor's window, one with a
\* header drop of 6", one 90" tall and one with a header drop of 100"
TallOpenings ==
    {NewOpening("door"),
     [NewOpening("door") EXCEPT !.height = In(84)],
     [NewOpening("door") EXCEPT !.height = In(90), !.headerSize = "2x12"],
     NewOpening("window"),
     [NewOpening("window") EXCEPT !.headerTopOffset = Some(In(6))],
     [NewOpening("window") EXCEPT !.height = In(90)],
     [NewOpening("window") EXCEPT !.headerTopOffset = Some(In(100))]}

InitOpenings ==
    /\ \E l \in OpeningWallLengths, h \in WallHeights, sp \in StudSpacings :
         \E dtp \in BOOLEAN, op \in TallOpenings :
            details = [defaultWallDetails EXCEPT
                         !.wallLength = l, !.wallHeight = h,
                         !.studSpacing = sp, !.doubleTopPlate = dtp,
                         !.openings = WithIds(<<op>>)]
    /\ openingLayouts = <<>>
    /\ pc = "wall"
    /\ OptIdle
    /\ GenIdle
    /\ ProjIdle

NextOpenings == GenerateWallMembers(1)

SpecOpenings == InitOpenings /\ [][NextOpenings]_vars

\* the one opening of the wall, and the parts of its frame
TheOpening == details.openings[1]
TopPlateUnderside ==
    (IF details.doubleTopPlate THEN 2 ELSE 1) * PLATE_THICKNESS
BottomPlateTop == details.wallHeight - PLATE_THICKNESS
HeaderDepth == headerHeights(TheOpening.headerSize)
HeaderMembers == OfType("header")
JackMembers == NamedLike(" Jack")
CrippleMembers == OfType("cripple")
SillMembers == OfType("sill")

\* where the header of a door sits before the clamp
DoorHeaderY ==
    details.wallHeight - PLATE_THICKNESS - TheOpening.height - HeaderDepth

\* C23: the header of a door sits at wallHeight - bottomPlate - openingHeight
\* - headerDepth, or at the underside of the top plate(s) if that is lower;
\* the jacks start at the header's underside and are as tall as the door;
\* cripples above the header start under the top plate(s) and are as tall as
\* the gap down to the header, and there are none without a gap.
C23_DoorHeaderJacksAndCripples ==
    Generated /\ TheOpening.type = "door" =>
       /\ HeaderMembers # <<>>
       /\ \A k \in DOMAIN HeaderMembers :
             /\ HeaderMembers[k].y >= TopPlateUnderside
             /\ HeaderMembers[k].y =
                   (IF DoorHeaderY > TopPlateUnderside THEN DoorHeaderY
                    ELSE TopPlateUnderside)
       /\ Len(JackMembers) = 2 * TheOpening.jackStudsPerSide
       /\ \A j \in DOMAIN JackMembers :
             /\ JackMembers[j].y = HeaderMembers[1].y + HeaderMembers[1].h
             /\ JackMembers[j].h = TheOpening.height
       /\ \A c \in DOMAIN CrippleMembers :
             /\ CrippleMembers[c].y = TopPlateUnderside
             /\ CrippleMembers[c].h > 0
             /\ CrippleMembers[c].y + CrippleMembers[c].h = HeaderMembers[1].y

\* a door too tall for the wall, whose header is clamped under the top
\* plate(s), has been framed
C23_Witness ==
    /\ Generated
    /\ TheOpening.type = "door"
    /\ DoorHeaderY < TopPlateUnderside
    /\ HeaderMembers # <<>>
    /\ HeaderMembers[1].y = TopPlateUnderside
    /\ JackMembers # <<>>

\* the cripples under the sill of a window: those not hung from the top
\* plate(s)
LowerCripples ==
    SelectSeq(CrippleMembers, LAMBDA m : m.y # TopPlateUnderside)

\* the on-center marks strictly inside the span of the header
MarksInsideHeader ==
    {k \in 1..(details.wallLength \div details.studSpacing) :
        /\ k * details.studSpacing > HeaderMembers[1].x
        /\ k * details.studSpacing < HeaderMembers[1].x + HeaderMembers[1].w}

\* C24: the header of a window sits headerTopOffset under the top plate(s);
\* each jack starts at the header's underside and ends at the top of the
\* bottom plate, with height 0 if that would be negative; the sill sits at
\* the header's underside plus the opening height; the cripples below the
\* sill exist only with a positive height, run from the sill's underside to
\* the top of the bottom plate, and stand one on each on-center mark strictly
\* inside the header span.
C24_WindowHeaderJacksSillAndCripples ==
    Generated /\ TheOpening.type = "window" =>
       /\ HeaderMembers # <<>>
       /\ \A k \in DOMAIN HeaderMembers :
             HeaderMembers[k].y =
                TopPlateUnderside
                  + (IF TheOpening.headerTopOffset = Undefined THEN 0
                     ELSE TheOpening.headerTopOffset[1])
       /\ Len(JackMembers) = 2 * TheOpening.jackStudsPerSide
       /\ \A j \in DOMAIN JackMembers :
             /\ JackMembers[j].y = HeaderMembers[1].y + HeaderDepth
             /\ JackMembers[j].h >= 0
             /\ \/ JackMembers[j].y + JackMembers[j].h = BottomPlateTop
                \/ /\ JackMembers[j].h = 0
                   /\ JackMembers[j].y > BottomPlateTop
       /\ Len(SillMembers) = 1
       /\ SillMembers[1].y =
             HeaderMembers[1].y + HeaderDepth + TheOpening.height
       /\ \A c \in DOMAIN LowerCripples :
             /\ LowerCripples[c].h > 0
             /\ LowerCripples[c].y = SillMembers[1].y + SillMembers[1].h
             /\ LowerCripples[c].y + LowerCripples[c].h = BottomPlateTop
             /\ \E k \in MarksInsideHeader :
                   LowerCripples[c].x + STUD_THICKNESS \div 2
                      = k * details.studSpacing
       /\ Len(LowerCripples) =
             (IF SillMembers[1].y + SillMembers[1].h < BottomPlateTop
              THEN Cardinality(MarksInsideHeader) ELSE 0)

\* a window whose header drop leaves no room for jacks (their height is
\* clamped to 0) has been framed, and so has its sill
C24_Witness ==
    /\ Generated
    /\ TheOpening.type = "window"
    /\ JackMembers # <<>>
    /\ JackMembers[1].h = 0
    /\ JackMembers[1].y > BottomPlateTop
    /\ Len(SillMembers) = 1

\* C29: in a wall taller than its plates, every framing member lies between
\* the top and the bottom of the wall and has a width and a height of at
\* least 0, whatever the size of the opening.
C29_MembersInsideTheWall ==
    Generated /\ details.wallHeight > TopPlateUnderside + PLATE_THICKNESS =>
       \A m \in DOMAIN members :
          members[m].type # "sheathing" =>
             /\ members[m].y >= 0
             /\ members[m].y + members[m].h <= details.wallHeight
             /\ members[m].w >= 0
             /\ members[m].h >= 0

----------------------------------------------------------------------------
(* Walls with and without sheathing: the panels of generateWallMembers *)

\* 47", 48", 100" and 192" long; 96", 97 1/8", 120" and 200" tall
SheathedWallLengths == {In(47), In(48), In(100), In(192)}
SheathedWallHeights == {In(96), Eighths(777), In(120), In(200)}

InitSheathing ==
    /\ \E l \in SheathedWallLengths, h \in SheathedWallHeights :
         \E sz \in StudSizes, sh \in BOOLEAN :
            details = [defaultWallDetails EXCEPT
                         !.wallLength = l, !.wallHeight = h,
                         !.studSize = sz, !.sheathing = sh]
    /\ openingLayouts = <<>>
    /\ pc = "wall"
    /\ OptIdle
    /\ GenIdle
    /\ ProjIdle

NextSheathing == GenerateWallMembers(1)

SpecSheathing == InitSheathing /\ [][NextSheathing]_vars

Panels == OfType("sheathing")

\* two panels share a point of the wall face other than an edge
PanelsOverlap(p, q) ==
    /\ p.x < q.x + q.w
    /\ q.x < p.x + p.w
    /\ p.y < q.y + q.h
    /\ q.y < p.y + p.h

\* C25: with sheathing, the panels tile the face of the wall: each is at most
\* 48" by 96", no two overlap, together they cover [0, wallLength] x
\* [0, wallHeight] (one starts at the corner, and each ends at the edge of
\* the wall or where the next one starts, to its right and below it), only
\* panels of the last column and the last row are narrower or shorter, there
\* are ceil(wallLength / 48) * ceil(wallHeight / 96) of them and each is at
\* z = studDepth; without sheathing there is none.
C25_PanelsTileTheWall ==
    Generated =>
       IF details.sheathing
       THEN /\ \A k \in DOMAIN Panels :
                  /\ Panels[k].w > 0 /\ Panels[k].w <= In(48)
                  /\ Panels[k].h > 0 /\ Panels[k].h <= In(96)
                  /\ Panels[k].x >= 0
                  /\ Panels[k].x + Panels[k].w <= details.wallLength
                  /\ Panels[k].y >= 0
                  /\ Panels[k].y + Panels[k].h <= details.wallHeight
                  /\ Panels[k].z = studDepths(details.studSize)
                  /\ Panels[k].w < In(48) =>
                        Panels[k].x + Panels[k].w = details.wallLength
                  /\ Panels[k].h < In(96) =>
                        Panels[k].y + Panels[k].h = details.wallHeight
                  /\ \/ Panels[k].x + Panels[k].w = details.wallLength
                     \/ \E j \in DOMAIN Panels :
                           /\ Panels[j].x = Panels[k].x + Panels[k].w
                           /\ Panels[j].y = Panels[k].y
                  /\ \/ Panels[k].y + Panels[k].h = details.wallHeight
                     \/ \E j \in DOMAIN Panels :
                           /\ Panels[j].y = Panels[k].y + Panels[k].h
                           /\ Panels[j].x = Panels[k].x
            /\ \E k \in DOMAIN Panels : Panels[k].x = 0 /\ Panels[k].y = 0
            /\ \A j, k \in DOMAIN Panels :
                  j # k => ~PanelsOverlap(Panels[j], Panels[k])
            /\ Len(Panels) =
                  CeilDiv(details.wallLength, In(48))
                     * CeilDiv(details.wallHeight, In(96))
       ELSE Panels = <<>>

\* a sheathed wall whose last column is narrower and whose last row is
\* shorter than a full panel has been generated
C25_Witness ==
    /\ Generated
    /\ details.sheathing
    /\ Len(Panels) >= 6
    /\ \E k \in DOMAIN Panels :
          Panels[k].w < In(48) /\ Panels[k].h < In(96)

----------------------------------------------------------------------------
(* Plates and the span of the common studs *)

BottomPlates == SelectSeq(members, LAMBDA m : m.id = "bottom-plate")
TopPlates == SelectSeq(members, LAMBDA m : Includes(m.id, "top-plate"))

\* C26: generateWallMembers emits exactly one bottom plate at
\* y = wallHeight - 1.5, of type pt-plate when the pressure-treated bottom
\* plate is requested and plate otherwise; with a double top plate two
\* stacked members 1.5" high at y = 0 and y = 1.5, otherwise one member
\* twice the plate thickness high; the common studs start at the underside of
\* the top plate(s) and end at the top of the bottom plate.
C26_PlatesAndStudSpan ==
    Generated =>
       /\ Len(BottomPlates) = 1
       /\ BottomPlates[1].y = details.wallHeight - PLATE_THICKNESS
       /\ BottomPlates[1].type =
             IF details.pressureTreatedBottomPlate THEN "pt-plate" ELSE "plate"
       /\ Len(SelectSeq(members, LAMBDA m : m.type = "pt-plate"))
             = IF details.pressureTreatedBottomPlate THEN 1 ELSE 0
       /\ IF details.doubleTopPlate
          THEN /\ Len(TopPlates) = 2
               /\ TopPlates[1].y = 0
               /\ TopPlates[1].h = PLATE_THICKNESS
               /\ TopPlates[2].y = PLATE_THICKNESS
               /\ TopPlates[2].h = PLATE_THICKNESS
          ELSE /\ Len(TopPlates) = 1
               /\ TopPlates[1].y = 0
               /\ TopPlates[1].h = 2 * PLATE_THICKNESS
       /\ \A k \in DOMAIN StudMembers :
             /\ StudMembers[k].y =
                   TopPlates[Len(TopPlates)].y + TopPlates[Len(TopPlates)].h
             /\ StudMembers[k].y + StudMembers[k].h = BottomPlates[1].y

----------------------------------------------------------------------------
(* The bins of optimizeCuts while the cuts are placed *)

LargestStock == CHOOSE l \in Range(stockLengths) : \A m \in Range(stockLengths) : m <= l

\* C27: after any number of placed cuts every open bin has
\* 0 <= remaining <= length and remaining = length minus the sum of the cuts
\* assigned to it; when every input cut is at most the largest stock length,
\* the stock returned (sum of length * count) is at least the sum of the
\* input cuts.
C27_BinsAccountForTheirCuts ==
    /\ \A b \in DOMAIN stockBins :
          /\ 0 <= stockBins[b].remaining
          /\ stockBins[b].remaining <= stockBins[b].length
          /\ stockBins[b].remaining
                = stockBins[b].length - SeqSum(binCuts[b])
    /\ (/\ pc = "optimized"
        /\ stockLengths # <<>>
        /\ \A i \in DOMAIN cuts : cuts[i] <= LargestStock)
          => SeqSum([k \in DOMAIN optimized |->
                        optimized[k].length * optimized[k].count])
                >= SeqSum(cuts)

\* a run whose cuts all fit the largest stock length has returned, with a bin
\* that holds two cuts and is used up and a second bin of another length
C27_Witness ==
    /\ pc = "optimized"
    /\ \A i \in DOMAIN cuts : cuts[i] <= LargestStock
    /\ \E b \in DOMAIN stockBins :
          Len(binCuts[b]) >= 2 /\ stockBins[b].remaining = 0
    /\ \E a, b \in DOMAIN stockBins : stockBins[a].length # stockBins[b].length
    /\ Len(optimized) >= 2

----------------------------------------------------------------------------
(* The ids of the members of one call *)

\* the id of m comes from getMemberData: its name, a space and a count
HasCountedId(m) ==
    /\ Len(m.id) > Len(m.name) + 1
    /\ SubSeq(m.id, 1, Len(m.name) + 1) = m.name \o " "

\* how many of the members ms[1..k] with a counted id have the name of ms[k]
RankByName(ms, k) ==
    Cardinality({j \in 1..k : HasCountedId(ms[j]) /\ ms[j].name = ms[k].name})

IdsOfOneCall(ms) ==
    /\ \A i, j \in DOMAIN ms : i # j => ms[i].id # ms[j].id
    /\ \A k \in DOMAIN ms :
          HasCountedId(ms[k]) =>
             ms[k].id = ms[k].name \o " " \o ToString(RankByName(ms, k))

----------------------------------------------------------------------------
(* Pre-cut studs in the lists of the project *)

PrecutSizes == {"2x4", "2x6"}
PrecutLengthNames == {PRECUT_STUD_LENGTHS("92.625"), PRECUT_STUD_LENGTHS("104.625")}

IsPrecutItem(item, size, length) ==
    item.description = size \o " Pre-cut Studs" /\ item.length = length

\* the pre-cut studs of one size and length in a material list
PrecutQuantity(list, size, length) ==
    SeqSum([k \in DOMAIN list |->
              IF IsPrecutItem(list[k], size, length) THEN list[k].quantity
              ELSE 0])

\* the pre-cut studs of the byWall lists of the walls in chosen
PrecutQuantityOfWalls(chosen, size, length) ==
    SeqSum([k \in DOMAIN materials[1].byWall |->
              IF \E i \in chosen : walls[i].id = materials[1].byWall[k].id
              THEN PrecutQuantity(materials[1].byWall[k].materials, size,
                                  length)
              ELSE 0])

WallsOfFloor(f) == {i \in DOMAIN walls : FloorIdOf(walls[i]) = floors[f].id}

\* the optimizeCuts calls made for the bulk list of the walls in chosen
BulkCallsOf(chosen) ==
    optimizeCallsOf(globalRawCutsOf(aggregateRawCuts(
        SelectSeq(walls, LAMBDA w : \E i \in chosen : walls[i] = w))))

NoPrecutFed(calls) ==
    \A c \in DOMAIN calls : \A k \in DOMAIN calls[c].cuts :
        Includes(calls[c].desc, " Stud") =>
           /\ ~isApprox(calls[c].cuts[k], Eighths(741))
           /\ ~isApprox(calls[c].cuts[k], Eighths(837))

\* the items of size and length in unmerged: at most one, none from
\* processRawCuts
AtMostOnePrecutItem(unmerged, size, length) ==
    Cardinality({k \in DOMAIN unmerged :
                    IsPrecutItem(unmerged[k], size, length)}) <= 1

\* C30: for every stud size and pre-cut length, the pre-cut quantity of the
\* project list is the sum of the pre-cut quantities of the byWall lists, and
\* the pre-cut quantity of each floor is the sum over the walls of that
\* floor; the pre-cut studs are not among the cuts handed to optimizeCuts
\* for a floor or for the project, whose lists get their pre-cut items from
\* the counts alone.
C30_PrecutsConserved ==
    Calculated =>
       /\ \A size \in PrecutSizes, length \in PrecutLengthNames :
             /\ PrecutQuantity(materials[1].list, size, length)
                   = PrecutQuantityOfWalls(DOMAIN walls, size, length)
             /\ AtMostOnePrecutItem(projectLog[1].list, size, length)
             /\ \A f \in DOMAIN floors :
                   /\ SeqSum([k \in DOMAIN materials[1].byFloor |->
                                IF materials[1].byFloor[k].id = floors[f].id
                                THEN PrecutQuantity(
                                        materials[1].byFloor[k].materials,
                                        size, length)
                                ELSE 0])
                         = PrecutQuantityOfWalls(WallsOfFloor(f), size, length)
                   /\ AtMostOnePrecutItem(projectLog[1].byFloor[f].materials,
                                          size, length)
       /\ NoPrecutFed(BulkCallsOf(DOMAIN walls))
       /\ \A f \in DOMAIN floors : NoPrecutFed(BulkCallsOf(WallsOfFloor(f)))

\* two walls with pre-cut studs of one size on two floors, and a project
\* list that has pre-cut studs and optimized studs
C30_Witness ==
    /\ Calculated
    /\ Len(walls) = 2
    /\ Len(materials[1].byFloor) = 2
    /\ \E size \in PrecutSizes, length \in PrecutLengthNames :
          /\ \A k \in DOMAIN materials[1].byWall :
                PrecutQuantity(materials[1].byWall[k].materials, size, length)
                   > 0
          /\ PrecutQuantity(materials[1].list, size, length)
                > PrecutQuantity(materials[1].byWall[1].materials, size,
                                 length)
    /\ \E c \in DOMAIN BulkCallsOf(DOMAIN walls) :
          Includes(BulkCallsOf(DOMAIN walls)[c].desc, " Stud")

====
